---- MODULE Spec2Model ----
(***************************************************************************)
(* The realtime event loop of the voice-call bridge                        *)
(* (handle_realtime_messages).  The repository carries three copies of     *)
(* the loop:                                                               *)
(*   RE  api/app/agents/realtime_events.py  (try/except, get_attr,         *)
(*       send_chat_history, is_development_mode)                           *)
(*   AU  api/app/agents/utils.py            (_get, inline flush)           *)
(*   MN  api/app/main.py                    (direct attribute access)      *)
(* impl selects the copy a session runs.                                   *)
(***************************************************************************)
EXTENDS Integers, Sequences, FiniteSets, TLC

VARIABLES impl, is_development_mode, chat_history, idx_first_msg_to_send,
          wsLog, loop, nEvents, last, prev,
          audio_out,        \* chunks the model connection gave the callback
          handler,          \* position of agent_connect ("none": the loop
                            \* is run on its own)
          inbound_log,      \* texts receive_text returned to the inbound loop
          model_log,        \* events the inbound loop sent with client.send
          teardown,         \* teardown steps in the order they happened
          ws_send_blocked,  \* the telephony socket accepts no write now
          fn_call,          \* the latest call of a helper function, with
                            \* its arguments and its outcome
          _conversations,   \* ConversationManager._conversations: id -> object
          _conversation_counter,
          objects,          \* the session objects made so far (Conversation
                            \* of chat.py, or the locals of one agent_connect)
          plugins,          \* the DeliveryPlugin instances made so far
          threads,          \* the agent threads made so far
          requests,         \* the /chat requests and where each one stands
          tool_call,        \* the latest call of a plugin function
          harness,          \* the VoiceCallClient of an evaluation run
          runner            \* where _run_conversation stands, and its
                            \* receive task

loopvars == <<impl, is_development_mode, chat_history, idx_first_msg_to_send,
              wsLog, loop, nEvents, last, prev, audio_out>>

vars == <<impl, is_development_mode, chat_history, idx_first_msg_to_send,
          wsLog, loop, nEvents, last, prev,
          audio_out, handler, inbound_log, model_log, teardown,
          ws_send_blocked, fn_call, _conversations, _conversation_counter,
          objects, plugins, threads, requests, tool_call, harness, runner>>

connvars == <<handler, inbound_log, model_log, teardown, ws_send_blocked>>

\* the variables outside a call's event loop and connection handler
chatvars == <<_conversations, _conversation_counter, objects, plugins,
              threads, requests, tool_call>>
evalvars == <<harness, runner>>
appvars == <<fn_call, chatvars, evalvars>>

\* Number of /chat requests, of telephony sessions next to them, and of
\* plugin calls, in the model of the chat application.
MaxRequests == 2
MaxCalls == 1
MaxToolCalls == 2

\* Longest transcript handed to export_chat_history on its own.
MaxExportLen == 2

\* Number of model events one session consumes in the model.
MaxEvents == 3

\* Number of model events the receive task of a session started by
\* agent_connect consumes, and number of texts its inbound loop receives.
MaxConnEvents == 1
MaxFrames == 2

RE == "realtime_events"
AU == "agents_utils"
MN == "main"

(***************************************************************************)
(* Python values of event payloads.                                        *)
(***************************************************************************)
None == [t |-> "none"]
Str(s) == [t |-> "str", s |-> s]
Num(n) == [t |-> "int", n |-> n]
Obj(fields) == [t |-> "obj", f |-> fields]

\* Python truthiness of a payload value (x or default, if x:).
Truthy(v) ==
    CASE v.t = "none" -> FALSE
      [] v.t = "str" -> v.s # ""
      [] v.t = "int" -> v.n # 0
      [] OTHER -> TRUE

\* x or d
Or(v, d) == IF Truthy(v) THEN v ELSE d

\* hasattr(cur, part)
HasAttr(cur, part) == cur.t = "obj" /\ part \in DOMAIN cur.f

\* getattr(cur, part, None)
getattr(cur, part) == IF HasAttr(cur, part) THEN cur.f[part] ELSE None

\* An accessor that looks at the first part of the path only.
_get_first(obj, path, default) ==
    IF obj = None \/ path = <<>> THEN default
    ELSE getattr(obj, Head(path))

\* _get(obj, path, default): path is the dotted path split on "."
RECURSIVE _get(_, _, _)
_get(obj, path, default) ==
    IF path = <<>>
    THEN (IF obj # None THEN obj ELSE default)
    ELSE IF obj = None
         THEN default
         ELSE _get(getattr(obj, Head(path)), Tail(path), default)

\* get_attr imported by realtime_events.py from .utils
get_attr(obj, path) == _get(obj, path, None)

\* a.b.c by plain attribute access: TRUE iff no AttributeError is raised
RECURSIVE CanRead(_, _)
CanRead(obj, path) ==
    IF path = <<>> THEN TRUE
    ELSE HasAttr(obj, Head(path)) /\ CanRead(obj.f[Head(path)], Tail(path))

\* value of a.b.c by plain attribute access (when CanRead)
RECURSIVE Read(_, _)
Read(obj, path) ==
    IF path = <<>> THEN obj ELSE Read(obj.f[Head(path)], Tail(path))

(***************************************************************************)
(* The transcript (semantic-kernel ChatHistory.messages).                  *)
(***************************************************************************)
Msg(role, content, items) == [role |-> role, content |-> content, items |-> items]

add_system_message(h, text) == Append(h, Msg("system", text, <<>>))
add_user_message(h, text) == Append(h, Msg("user", text, <<>>))
add_assistant_message(h, text) == Append(h, Msg("assistant", text, <<>>))
\* a tool message put in front of the entry before it
add_tool_message_before(h, items) ==
    IF h = <<>> THEN <<Msg("tool", "", items)>>
    ELSE Append(SubSeq(h, 1, Len(h) - 1), Msg("tool", "", items))
         \o <<h[Len(h)]>>

\* add_tool_message([function_result])
add_tool_message(h, items) == Append(h, Msg("tool", "", items))

Instructions == "You are a helpful support agent"
TemporaryIssue == "I hit a temporary issue calling a tool. Let's try again or continue without it."

\* json.loads on the argument texts the model draws from: the parsed value,
\* or a JSONDecodeError (ok = FALSE).
ArgsJsonText == "{\"slot_id\": \"3\"}"
ArgsRawText == "slot 3"
json_loads(text) ==
    IF text = ArgsJsonText
    THEN [ok |-> TRUE, v |-> Obj([slot_id |-> Str("3")])]
    ELSE IF text = "{}" THEN [ok |-> TRUE, v |-> Obj(<<>>)]
    ELSE [ok |-> FALSE]

\* parsed_args of agents/utils.py: a str is parsed, and kept as it is when
\* it does not parse; a dict is kept; anything else gives None.
parsed_args(arguments) ==
    IF arguments.t = "str"
    THEN (IF json_loads(arguments.s).ok THEN json_loads(arguments.s).v
          ELSE arguments)
    ELSE IF arguments.t = "obj" THEN arguments
    ELSE None

\* one function-call sub-record of an exported message
ExportItem(item) ==
    IF item.kind = "Result"
    THEN [name |-> item.function_name, plugin |-> item.plugin_name,
          arguments_sent |-> item.arguments,
          arguments_used |-> item.used_arguments,
          result |-> item.result]
    ELSE [name |-> item.function_name, plugin |-> item.plugin_name,
          arguments |-> parsed_args(item.arguments)]

\* one exported message: role, content only if non-empty, function_calls
\* only if the message carries function-call items
ExportMsg(msg) ==
    LET fc == [i \in 1..Len(msg.items) |-> ExportItem(msg.items[i])]
    IN  CASE msg.content # "" /\ fc # <<>> ->
               [role |-> msg.role, content |-> msg.content, function_calls |-> fc]
          [] msg.content # "" /\ fc = <<>> ->
               [role |-> msg.role, content |-> msg.content]
          [] msg.content = "" /\ fc # <<>> ->
               [role |-> msg.role, function_calls |-> fc]
          [] OTHER -> [role |-> msg.role]

\* chat_history.messages[from_index:]
Slice(h, from_index) == SubSeq(h, from_index + 1, Len(h))

\* export_chat_history that ignores from_index and exports every message.
export_chat_history_all(h, from_index) ==
    [i \in 1..Len(h) |-> ExportMsg(h[i])]

export_chat_history(h, from_index) ==
    LET raw == Slice(h, from_index)
    IN  [i \in 1..Len(raw) |-> ExportMsg(raw[i])]

(***************************************************************************)
(* The telephony socket.  wsLog records every websocket.send_text call of  *)
(* the loop in call order; ok tells whether the write succeeded or raised. *)
(***************************************************************************)
Frame(kind, data, ok) == [kind |-> kind, data |-> data, ok |-> ok]

\* An AudioData frame that lost the last four characters of its payload.
AudioDataFrame_short(b64, ok) ==
    Frame("AudioData",
          [t |-> "audio", data |-> SubSeq(b64, 1, Len(b64) - 4)], ok)

AudioDataFrame(b64, ok) == Frame("AudioData", [t |-> "audio", data |-> b64], ok)
StopAudioFrame(ok) == Frame("StopAudio", [t |-> "stop"], ok)
TranscriptionFrame(speaker, text, timestamp, ok) ==
    Frame("Transcription",
          [t |-> "caption", speaker |-> speaker, text |-> text,
           timestamp |-> timestamp], ok)
ChatHistoryFrame(data, ok) == Frame("ChatHistory", [t |-> "list", items |-> data], ok)
AgentErrorFrame(ok) ==
    Frame("AgentError",
          [t |-> "error", message |-> "A tool call failed. The assistant will continue."],
          ok)

\* Result of running part of a handler: the transcript, the watermark, the
\* socket log, whether an exception is propagating, whether a flush ran.
Res(h, idx, log, exc, flushed) ==
    [h |-> h, idx |-> idx, log |-> log, exc |-> exc, flushed |-> flushed]

\* The handler changed nothing and returned.
Skip == Res(chat_history, idx_first_msg_to_send, wsLog, FALSE, FALSE)
\* The handler raised before any effect.
Raise == Res(chat_history, idx_first_msg_to_send, wsLog, TRUE, FALSE)

\* send_chat_history(websocket, chat_history, idx): serialise the unsent
\* slice, write one ChatHistory frame, return the new watermark; a failed
\* write is contained and the watermark still advances.
send_chat_history(log, h, idx, ok) ==
    Res(h, Len(h), Append(log, ChatHistoryFrame(export_chat_history(h, idx), ok)),
        FALSE, TRUE)

\* InlineFlush with the watermark assignment after the write left out.
InlineFlush_stale(log, h, idx, ok) ==
    Res(h, idx, Append(log, ChatHistoryFrame(export_chat_history(h, idx), ok)),
        ~ok, ok)

\* The inline flush of agents/utils.py and main.py: the write may raise, and
\* then the watermark assignment after it is not reached.
InlineFlush(log, h, idx, ok) ==
    Res(h, IF ok THEN Len(h) ELSE idx,
        Append(log, ChatHistoryFrame(export_chat_history(h, idx), ok)),
        ~ok, ok)

(***************************************************************************)
(* Model events.  An event is a Python object with a service_type and,     *)
(* depending on its class, service_event, function_result or audio.        *)
(***************************************************************************)
SESSION_CREATED == "session.created"
ERROR == "error"
INPUT_AUDIO_BUFFER_CLEARED == "input_audio_buffer.cleared"
INPUT_AUDIO_BUFFER_SPEECH_STARTED == "input_audio_buffer.speech_started"
TRANSCRIPTION_COMPLETED == "conversation.item.input_audio_transcription.completed"
TRANSCRIPTION_FAILED == "conversation.item.input_audio_transcription.failed"
RESPONSE_AUDIO_TRANSCRIPT_DONE == "response.audio_transcript.done"
RESPONSE_DONE == "response.done"
CONVERSATION_ITEM_CREATE == "conversation.item.create"
RESPONSE_AUDIO_DELTA == "response.audio.delta"
RESPONSE_CREATED == "response.created"

Event(type, se) == Obj([service_type |-> Str(type), service_event |-> se])

service_type(e) == e.f.service_type.s

\* se = getattr(event, "service_event", None)
service_event(e) == getattr(e, "service_event")

\* The transcript texts and payload shapes the model draws events from.
Texts == {"I need apples", "Your delivery is booked"}

\* A transcription payload: transcript absent, empty or a text; the user
\* payload also carries audio_start_ms.
TranscriptPayloads ==
    {Obj([item_id |-> Str("i1")])}
    \cup {Obj([transcript |-> Str(x), audio_start_ms |-> Num(120)]) : x \in Texts \cup {""}}

SpeechPayloads == {None, Obj([audio_start_ms |-> Num(120)])}

ErrorPayloads == {None, Obj([error |-> Str("rate_limited")])}

SessionPayloads == {None, Obj([session |-> Obj([id |-> Str("sess_1")])])}

\* response.status_details: absent, or an object whose model_dump_json()
\* works (dumps) or raises
ResponsePayloads ==
    {None,
     Obj([response |-> Obj([id |-> Str("resp_1"), status_details |-> None])]),
     Obj([response |-> Obj([id |-> Str("resp_1"),
                            status_details |-> Obj([dumps |-> Str("no")])])])}

\* A FunctionResultContent as the kernel produces it for a completed call.
FunctionResult(fn, plugin, result) ==
    [t |-> "function_result", kind |-> "Result", function_name |-> fn,
     plugin_name |-> plugin, arguments |-> "{}", used_arguments |-> "{}",
     result |-> result]

\* A FunctionCallContent: the model asks for a call with these arguments.
FunctionCall(fn, plugin, arguments) ==
    [t |-> "function_call", kind |-> "Invocation", function_name |-> fn,
     plugin_name |-> plugin, arguments |-> arguments]

FunctionResults ==
    {FunctionResult("schedule_delivery", "delivery", "Delivery has been scheduled for slot 3")}

\* conversation.item.create events: with a function result, or without
ToolCallEvents ==
    {Obj([service_type |-> Str(CONVERSATION_ITEM_CREATE), function_result |-> fr]) :
        fr \in FunctionResults}
    \cup {Obj([service_type |-> Str(CONVERSATION_ITEM_CREATE)]),
          Obj([service_type |-> Str(CONVERSATION_ITEM_CREATE),
               function_result |-> None])}

\* Audio chunks (audio.tobytes()) the model delivers: byte sequences.
AudioChunks == {<<82, 73, 70>>, <<255>>}

\* base64.b64encode over a byte sequence, as the sequence of alphabet
\* positions (0..63) with 64 standing for the padding character "=".
RECURSIVE b64encode(_)
b64encode(bs) ==
    IF Len(bs) = 0 THEN <<>>
    ELSE IF Len(bs) = 1
         THEN <<bs[1] \div 4, (bs[1] % 4) * 16, 64, 64>>
    ELSE IF Len(bs) = 2
         THEN <<bs[1] \div 4, (bs[1] % 4) * 16 + bs[2] \div 16,
                (bs[2] % 16) * 4, 64>>
    ELSE <<bs[1] \div 4, (bs[1] % 4) * 16 + bs[2] \div 16,
           (bs[2] % 16) * 4 + bs[3] \div 64, bs[3] % 64>>
         \o b64encode(SubSeq(bs, 4, Len(bs)))

(***************************************************************************)
(* The handlers of realtime_events.py.  Each returns a Res: the effects    *)
(* up to the point where it returned or raised.  ok: the handler's socket  *)
(* write succeeds.                                                         *)
(***************************************************************************)
RE_SESSION_CREATED(e) == Skip

RE_ERROR(e, ok) ==
    send_chat_history(wsLog, add_assistant_message(chat_history, TemporaryIssue),
                      idx_first_msg_to_send, ok)

RE_INPUT_AUDIO_BUFFER_CLEARED(e) == Skip

\* SpeechStarted handing its StopAudio write to a task of its own, which
\* has not run when the handler returns.
RE_SPEECH_STARTED_deferred(e, ok) == Skip

RE_SPEECH_STARTED(e, ok) ==
    Res(chat_history, idx_first_msg_to_send, Append(wsLog, StopAudioFrame(ok)),
        ~ok, FALSE)

\* RE_TRANSCRIPTION_COMPLETED recording the user's words as an assistant
\* message.
RE_TRANSCRIPTION_COMPLETED_role(e, ok) ==
    LET se == service_event(e)
        user_transcript == Or(get_attr(se, <<"transcript">>), Str("")).s
        h == IF user_transcript # ""
             THEN add_assistant_message(chat_history, user_transcript)
             ELSE chat_history
    IN  IF is_development_mode
        THEN Res(h, idx_first_msg_to_send,
                 Append(wsLog,
                        TranscriptionFrame("user", user_transcript,
                            Or(get_attr(se, <<"audio_start_ms">>), Num(0)), ok)),
                 ~ok, FALSE)
        ELSE Res(h, idx_first_msg_to_send, wsLog, FALSE, FALSE)

RE_TRANSCRIPTION_COMPLETED(e, ok) ==
    LET se == service_event(e)
        user_transcript == Or(get_attr(se, <<"transcript">>), Str("")).s
        h == IF user_transcript # ""
             THEN add_user_message(chat_history, user_transcript)
             ELSE chat_history
    IN  IF is_development_mode
        THEN Res(h, idx_first_msg_to_send,
                 Append(wsLog,
                        TranscriptionFrame("user", user_transcript,
                            Or(get_attr(se, <<"audio_start_ms">>), Num(0)), ok)),
                 ~ok, FALSE)
        ELSE Res(h, idx_first_msg_to_send, wsLog, FALSE, FALSE)

\* RE_TRANSCRIPTION_FAILED telling the caller about the failure.
RE_TRANSCRIPTION_FAILED_told(e) ==
    Res(chat_history, idx_first_msg_to_send,
        Append(wsLog, TranscriptionFrame("assistant", "Sorry, I did not catch that", 0, TRUE)),
        FALSE, FALSE)

RE_TRANSCRIPTION_FAILED(e) == Skip

\* RE_RESPONSE_AUDIO_TRANSCRIPT_DONE that also flushes the delta itself.
RE_RESPONSE_AUDIO_TRANSCRIPT_DONE_flush(e, ok) ==
    LET transcript == get_attr(service_event(e), <<"transcript">>)
    IN  IF Truthy(transcript)
        THEN send_chat_history(wsLog,
                               add_assistant_message(chat_history, transcript.s),
                               idx_first_msg_to_send, ok)
        ELSE Skip

RE_RESPONSE_AUDIO_TRANSCRIPT_DONE(e, ok) ==
    LET transcript == get_attr(service_event(e), <<"transcript">>)
    IN  IF Truthy(transcript)
        THEN LET h == add_assistant_message(chat_history, transcript.s)
             IN  IF is_development_mode
                 THEN Res(h, idx_first_msg_to_send,
                          Append(wsLog,
                                 TranscriptionFrame("assistant", transcript.s, None, ok)),
                          ~ok, FALSE)
                 ELSE Res(h, idx_first_msg_to_send, wsLog, FALSE, FALSE)
        ELSE Skip

\* status_details.model_dump_json() is inside its own try/except
RE_RESPONSE_DONE(e, ok) ==
    send_chat_history(wsLog, chat_history, idx_first_msg_to_send, ok)

\* RE_CONVERSATION_ITEM_CREATE that drops the function result.
RE_CONVERSATION_ITEM_CREATE_drop(e) == Skip

RE_CONVERSATION_ITEM_CREATE(e) ==
    LET function_result == getattr(e, "function_result")
    IN  IF function_result # None
        THEN Res(add_tool_message(chat_history, <<function_result>>),
                 idx_first_msg_to_send, wsLog, FALSE, FALSE)
        ELSE Skip

(***************************************************************************)
(* The handlers of agents/utils.py.                                        *)
(***************************************************************************)
AU_SESSION_CREATED(e) == Skip

AU_ERROR(e) == Skip

AU_INPUT_AUDIO_BUFFER_CLEARED(e) == Skip

AU_SPEECH_STARTED(e, ok) ==
    Res(chat_history, idx_first_msg_to_send, Append(wsLog, StopAudioFrame(ok)),
        ~ok, FALSE)

AU_TRANSCRIPTION_COMPLETED(e, ok) ==
    LET se == service_event(e)
        user_transcript == Or(_get(se, <<"transcript">>, None), Str("")).s
        h == IF user_transcript # ""
             THEN add_user_message(chat_history, user_transcript)
             ELSE chat_history
    IN  Res(h, idx_first_msg_to_send,
            Append(wsLog,
                   TranscriptionFrame("user", user_transcript,
                       Or(_get(se, <<"audio_start_ms">>, None), Num(0)), ok)),
            ~ok, FALSE)

AU_TRANSCRIPTION_FAILED(e) == Skip

\* AU_RESPONSE_DONE that writes no frame when no entry is waiting.
AU_RESPONSE_DONE_if_pending(e, ok) ==
    IF idx_first_msg_to_send = Len(chat_history) THEN Skip
    ELSE InlineFlush(wsLog, chat_history, idx_first_msg_to_send, ok)

AU_RESPONSE_DONE(e, ok) ==
    InlineFlush(wsLog, chat_history, idx_first_msg_to_send, ok)

AU_RESPONSE_AUDIO_TRANSCRIPT_DONE(e, ok) ==
    LET transcript == _get(service_event(e), <<"transcript">>, None)
    IN  IF Truthy(transcript)
        THEN Res(add_assistant_message(chat_history, transcript.s),
                 idx_first_msg_to_send,
                 Append(wsLog, TranscriptionFrame("assistant", transcript.s, None, ok)),
                 ~ok, FALSE)
        ELSE Skip

\* The handler without its 'is not None' test: a tool message is added
\* whether or not the event carries a result.
AU_CONVERSATION_ITEM_CREATE_unguarded(e) ==
    LET function_result == getattr(e, "function_result")
    IN  Res(add_tool_message(chat_history,
                             IF function_result # None
                             THEN <<function_result>> ELSE <<>>),
            idx_first_msg_to_send, wsLog, FALSE, FALSE)

AU_CONVERSATION_ITEM_CREATE(e) ==
    LET function_result == getattr(e, "function_result")
    IN  IF function_result # None
        THEN Res(add_tool_message(chat_history, <<function_result>>),
                 idx_first_msg_to_send, wsLog, FALSE, FALSE)
        ELSE Skip

(***************************************************************************)
(* The handlers of main.py: payload fields are read by plain attribute     *)
(* access, which raises AttributeError on a missing field.                 *)
(***************************************************************************)
MN_SESSION_CREATED(e) ==
    IF CanRead(e, <<"service_event", "session", "id">>) THEN Skip ELSE Raise

MN_ERROR(e) ==
    IF CanRead(e, <<"service_event", "error">>) THEN Skip ELSE Raise

MN_INPUT_AUDIO_BUFFER_CLEARED(e) == Skip

MN_SPEECH_STARTED(e, ok) ==
    IF CanRead(e, <<"service_event", "audio_start_ms">>)
    THEN Res(chat_history, idx_first_msg_to_send,
             Append(wsLog, StopAudioFrame(ok)), ~ok, FALSE)
    ELSE Raise

MN_TRANSCRIPTION_COMPLETED(e) ==
    IF CanRead(e, <<"service_event", "transcript">>) THEN Skip ELSE Raise

MN_TRANSCRIPTION_FAILED(e) ==
    IF CanRead(e, <<"service_event", "error">>) THEN Skip ELSE Raise

MN_RESPONSE_DONE(e, ok) ==
    IF /\ CanRead(e, <<"service_event", "response", "id">>)
       /\ CanRead(e, <<"service_event", "response", "status_details">>)
    THEN LET status_details ==
                 Read(e, <<"service_event", "response", "status_details">>)
         IN  IF Truthy(status_details) /\ status_details.f.dumps.s = "no"
             THEN Raise
             ELSE InlineFlush(wsLog, chat_history, idx_first_msg_to_send, ok)
    ELSE Raise

MN_RESPONSE_AUDIO_TRANSCRIPT_DONE(e) ==
    IF CanRead(e, <<"service_event", "transcript">>)
    THEN Res(add_assistant_message(chat_history,
                                   Read(e, <<"service_event", "transcript">>).s),
             idx_first_msg_to_send, wsLog, FALSE, FALSE)
    ELSE Raise

\* MN_CONVERSATION_ITEM_CREATE that records the function call as well, in
\* a tool message after the one of the result.
MN_CONVERSATION_ITEM_CREATE_and_call(e) ==
    IF CanRead(e, <<"function_result">>)
       /\ Read(e, <<"function_result">>) # None
    THEN LET fr == Read(e, <<"function_result">>)
         IN  Res(add_tool_message(
                   add_tool_message(chat_history, <<fr>>),
                   <<FunctionCall(fr.function_name, fr.plugin_name, Str("{}"))>>),
                 idx_first_msg_to_send, wsLog, FALSE, FALSE)
    ELSE Raise

\* event.function_result raises when the attribute is missing, and a tool
\* message whose item is None is rejected when the message is built.
MN_CONVERSATION_ITEM_CREATE(e) ==
    IF CanRead(e, <<"function_result">>)
       /\ Read(e, <<"function_result">>) # None
    THEN Res(add_tool_message(chat_history, <<Read(e, <<"function_result">>)>>),
             idx_first_msg_to_send, wsLog, FALSE, FALSE)
    ELSE Raise

\* A callback that also notes the chunk in the transcript.
from_realtime_to_acs_noting(audio, ok) ==
    Res(add_assistant_message(chat_history, "<audio>"), idx_first_msg_to_send,
        Append(wsLog, AudioDataFrame(b64encode(audio), ok)), ~ok, FALSE)

\* The audio callback handed to client.receive; the same in the three copies.
from_realtime_to_acs(audio, ok) ==
    Res(chat_history, idx_first_msg_to_send,
        Append(wsLog, AudioDataFrame(b64encode(audio), ok)), ~ok, FALSE)

(***************************************************************************)
(* The event loop: async for event in client.receive(...): match ...       *)
(***************************************************************************)
\* A watermark that starts at the first transcript entry.
LoopStart_zero(h) == 0

\* idx_first_msg_to_send = len(chat_history.messages) at loop start
LoopStart(h) == Len(h)

\* No helper function has been called yet.
NoCall == [fn |-> "none"]

\* ConversationManager.__init__, no request received, no session made.
ChatIdle ==
    /\ _conversations = [id \in {} |-> 0]
    /\ _conversation_counter = 0
    /\ objects = <<>>
    /\ plugins = <<>>
    /\ threads = <<>>
    /\ requests = [r \in 1..MaxRequests |-> [pc |-> "new"]]
    /\ tool_call = [n |-> 0]

\* VoiceCallClient.__init__: empty buffers, no segment, not connected.
\* Times of day are not modelled.
VoiceCallClient ==
    [websocket |-> "none", audio_buffer |-> <<>>,
     current_assistant_audio |-> <<>>, conversation_segments |-> <<>>,
     is_assistant_speaking |-> FALSE, chat_history |-> <<>>]

\* No evaluation run has started.
EvalIdle ==
    /\ harness = VoiceCallClient
    /\ runner = [pc |-> "idle"]

AppIdle == fn_call = NoCall /\ ChatIdle /\ EvalIdle

NoEvent == Obj([service_type |-> Str("<none>")])
ReceiveError == Obj([service_type |-> Str("<receive raised>")])

Init ==
    /\ impl \in {RE, AU, MN}
    /\ is_development_mode \in (IF impl = RE THEN BOOLEAN ELSE {FALSE})
    /\ chat_history = add_system_message(<<>>, Instructions)
    /\ idx_first_msg_to_send = LoopStart(chat_history)
    /\ wsLog = <<>>
    /\ loop = "running"
    /\ nEvents = 0
    /\ last = [event |-> NoEvent, len |-> Len(chat_history),
               idx |-> LoopStart(chat_history), ws |-> 0,
               exc |-> FALSE, flushed |-> FALSE]
    /\ prev = last
    /\ audio_out = <<>>
    /\ handler = "none"
    /\ inbound_log = <<>>
    /\ model_log = <<>>
    /\ teardown = <<>>
    /\ ws_send_blocked = FALSE
    /\ AppIdle

\* last and prev describe the latest two loop iterations: the event, the
\* transcript length, watermark and socket-log length before its handler
\* ran, whether the handler raised and whether it completed a flush.

\* The loop can take one more event.  Under agent_connect the loop runs as
\* receive_task, from asyncio.create_task until receive_task.cancel().
Receiving ==
    /\ loop = "running"
    /\ handler \in {"none", "inbound"}
    /\ nEvents < (IF handler = "none" THEN MaxEvents ELSE MaxConnEvents)

\* The task finishing is a step of the teardown of its session.
TaskDone(l) ==
    IF handler # "none" /\ l # "running"
    THEN Append(teardown, "receive_task done")
    ELSE teardown

\* Commit with the try/except of realtime_events.py inside the loop: after
\* the AgentError frame the loop takes the next event.
Commit_continue(e, r, ok2) ==
    /\ ws_send_blocked => r.log = wsLog /\ ~(r.exc /\ impl = RE)
    /\ chat_history' = r.h
    /\ idx_first_msg_to_send' = r.idx
    /\ wsLog' = IF r.exc /\ impl = RE
                THEN Append(r.log, AgentErrorFrame(ok2))
                ELSE r.log
    /\ loop' = IF r.exc /\ impl # RE THEN "raised" ELSE "running"
    /\ nEvents' = nEvents + 1
    /\ last' = [event |-> e, len |-> Len(chat_history),
                idx |-> idx_first_msg_to_send, ws |-> Len(wsLog),
                exc |-> r.exc, flushed |-> r.flushed]
    /\ prev' = last
    /\ audio_out' = IF service_type(e) = RESPONSE_AUDIO_DELTA
                    THEN Append(audio_out, e.f.audio)
                    ELSE audio_out
    /\ teardown' = TaskDone(loop')
    /\ UNCHANGED <<impl, is_development_mode, handler, inbound_log,
                   model_log, ws_send_blocked, appvars>>

\* One iteration of the loop ends with result r of the handler of e.  An
\* exception leaves the async for: realtime_events.py catches it, tries to
\* write one AgentError frame (ok2: that write succeeds) and returns; in the
\* other two copies it propagates out of the coroutine.
Commit(e, r, ok2) ==
    /\ ws_send_blocked => r.log = wsLog /\ ~(r.exc /\ impl = RE)
    /\ chat_history' = r.h
    /\ idx_first_msg_to_send' = r.idx
    /\ wsLog' = IF r.exc /\ impl = RE
                THEN Append(r.log, AgentErrorFrame(ok2))
                ELSE r.log
    /\ loop' = IF r.exc
               THEN (IF impl = RE THEN "returned" ELSE "raised")
               ELSE "running"
    /\ nEvents' = nEvents + 1
    /\ last' = [event |-> e, len |-> Len(chat_history),
                idx |-> idx_first_msg_to_send, ws |-> Len(wsLog),
                exc |-> r.exc, flushed |-> r.flushed]
    /\ prev' = last
    /\ audio_out' = IF service_type(e) = RESPONSE_AUDIO_DELTA
                    THEN Append(audio_out, e.f.audio)
                    ELSE audio_out
    /\ teardown' = TaskDone(loop')
    /\ UNCHANGED <<impl, is_development_mode, handler, inbound_log,
                   model_log, ws_send_blocked, appvars>>

SessionCreated ==
    /\ Receiving
    /\ \E se \in SessionPayloads, ok2 \in BOOLEAN :
         LET e == Event(SESSION_CREATED, se)
         IN  Commit(e, CASE impl = RE -> RE_SESSION_CREATED(e)
                         [] impl = AU -> AU_SESSION_CREATED(e)
                         [] impl = MN -> MN_SESSION_CREATED(e), ok2)

Error ==
    /\ Receiving
    /\ \E se \in ErrorPayloads, ok \in BOOLEAN, ok2 \in BOOLEAN :
         LET e == Event(ERROR, se)
         IN  Commit(e, CASE impl = RE -> RE_ERROR(e, ok)
                         [] impl = AU -> AU_ERROR(e)
                         [] impl = MN -> MN_ERROR(e), ok2)

AudioBufferCleared ==
    /\ Receiving
    /\ \E ok2 \in BOOLEAN :
         LET e == Event(INPUT_AUDIO_BUFFER_CLEARED, None)
         IN  Commit(e, CASE impl = RE -> RE_INPUT_AUDIO_BUFFER_CLEARED(e)
                         [] impl = AU -> AU_INPUT_AUDIO_BUFFER_CLEARED(e)
                         [] impl = MN -> MN_INPUT_AUDIO_BUFFER_CLEARED(e), ok2)

SpeechStarted ==
    /\ Receiving
    /\ \E se \in SpeechPayloads, ok \in BOOLEAN, ok2 \in BOOLEAN :
         LET e == Event(INPUT_AUDIO_BUFFER_SPEECH_STARTED, se)
         IN  Commit(e, CASE impl = RE -> RE_SPEECH_STARTED(e, ok)
                         [] impl = AU -> AU_SPEECH_STARTED(e, ok)
                         [] impl = MN -> MN_SPEECH_STARTED(e, ok), ok2)

UserTranscriptionDone ==
    /\ Receiving
    /\ \E se \in TranscriptPayloads, ok \in BOOLEAN, ok2 \in BOOLEAN :
         LET e == Event(TRANSCRIPTION_COMPLETED, se)
         IN  Commit(e, CASE impl = RE -> RE_TRANSCRIPTION_COMPLETED(e, ok)
                         [] impl = AU -> AU_TRANSCRIPTION_COMPLETED(e, ok)
                         [] impl = MN -> MN_TRANSCRIPTION_COMPLETED(e), ok2)

UserTranscriptionFailed ==
    /\ Receiving
    /\ \E se \in ErrorPayloads, ok2 \in BOOLEAN :
         LET e == Event(TRANSCRIPTION_FAILED, se)
         IN  Commit(e, CASE impl = RE -> RE_TRANSCRIPTION_FAILED(e)
                         [] impl = AU -> AU_TRANSCRIPTION_FAILED(e)
                         [] impl = MN -> MN_TRANSCRIPTION_FAILED(e), ok2)

AssistantTranscriptDone ==
    /\ Receiving
    /\ \E se \in TranscriptPayloads, ok \in BOOLEAN, ok2 \in BOOLEAN :
         LET e == Event(RESPONSE_AUDIO_TRANSCRIPT_DONE, se)
         IN  Commit(e, CASE impl = RE -> RE_RESPONSE_AUDIO_TRANSCRIPT_DONE(e, ok)
                         [] impl = AU -> AU_RESPONSE_AUDIO_TRANSCRIPT_DONE(e, ok)
                         [] impl = MN -> MN_RESPONSE_AUDIO_TRANSCRIPT_DONE(e), ok2)

ResponseDone ==
    /\ Receiving
    /\ \E se \in ResponsePayloads, ok \in BOOLEAN, ok2 \in BOOLEAN :
         LET e == Event(RESPONSE_DONE, se)
         IN  Commit(e, CASE impl = RE -> RE_RESPONSE_DONE(e, ok)
                         [] impl = AU -> AU_RESPONSE_DONE(e, ok)
                         [] impl = MN -> MN_RESPONSE_DONE(e, ok), ok2)

ToolCallCreate ==
    /\ Receiving
    /\ \E e \in ToolCallEvents, ok2 \in BOOLEAN :
         Commit(e, CASE impl = RE -> RE_CONVERSATION_ITEM_CREATE(e)
                     [] impl = AU -> AU_CONVERSATION_ITEM_CREATE(e)
                     [] impl = MN -> MN_CONVERSATION_ITEM_CREATE(e), ok2)

\* An audio chunk: client.receive calls the audio callback; the event itself
\* matches no case of the loop.
AudioDelta ==
    /\ Receiving
    /\ \E audio \in AudioChunks, ok \in BOOLEAN, ok2 \in BOOLEAN :
         Commit(Obj([service_type |-> Str(RESPONSE_AUDIO_DELTA), audio |-> audio]),
                from_realtime_to_acs(audio, ok), ok2)

\* An event of a category no case of the match names.
OtherEvent ==
    /\ Receiving
    /\ \E ok2 \in BOOLEAN : Commit(Event(RESPONSE_CREATED, None), Skip, ok2)

\* client.receive itself raises (the model connection dropped).
ReceiveRaises ==
    /\ Receiving
    /\ \E ok2 \in BOOLEAN : Commit(ReceiveError, Raise, ok2)

\* client.receive is exhausted: the async for ends and the function returns.
ReceiveEnds ==
    /\ loop = "running"
    /\ handler \in {"none", "inbound"}
    /\ loop' = "returned"
    /\ teardown' = TaskDone(loop')
    /\ UNCHANGED <<impl, is_development_mode, chat_history,
                   idx_first_msg_to_send, wsLog, nEvents, last, prev,
                   audio_out, handler, inbound_log, model_log,
                   ws_send_blocked, appvars>>

\* Cancellation handled like a failure of the loop: the except clause
\* writes an AgentError frame as the cancelled task ends.
TaskCancelled_caught ==
    /\ loop = "running"
    /\ handler \in {"none", "exiting", "returned", "raised"}
    /\ loop' = "cancelled"
    /\ \E ok2 \in BOOLEAN : wsLog' = Append(wsLog, AgentErrorFrame(ok2))
    /\ teardown' = TaskDone(loop')
    /\ UNCHANGED <<impl, is_development_mode, chat_history,
                   idx_first_msg_to_send, nEvents, last, prev,
                   audio_out, handler, inbound_log, model_log,
                   ws_send_blocked, appvars>>

\* The event loop runs the cancelled task: CancelledError is raised at the
\* await the task is suspended in (client.receive, or a send_text that the
\* socket does not take) and the task ends.  CancelledError is not an
\* Exception, so 'except Exception' of realtime_events.py lets it pass.
\* Under agent_connect the task is cancelled after the inbound loop; a loop
\* run on its own is cancelled by its owner at any time.
TaskCancelled ==
    /\ loop = "running"
    /\ handler \in {"none", "exiting", "returned", "raised"}
    /\ loop' = "cancelled"
    /\ teardown' = TaskDone(loop')
    /\ UNCHANGED <<impl, is_development_mode, chat_history,
                   idx_first_msg_to_send, wsLog, nEvents, last, prev,
                   audio_out, handler, inbound_log, model_log,
                   ws_send_blocked, appvars>>

Next ==
    \/ SessionCreated
    \/ Error
    \/ AudioBufferCleared
    \/ SpeechStarted
    \/ UserTranscriptionDone
    \/ UserTranscriptionFailed
    \/ AssistantTranscriptDone
    \/ ResponseDone
    \/ ToolCallCreate
    \/ AudioDelta
    \/ OtherEvent
    \/ ReceiveRaises
    \/ ReceiveEnds
    \/ TaskCancelled

Spec == Init /\ [][Next]_vars

(***************************************************************************)
(* agent_connect (main.py): the WebSocket endpoint of one call.  It       *)
(* starts the event loop of main.py as receive_task and runs the inbound   *)
(* loop from_acs_to_realtime itself.                                       *)
(***************************************************************************)
\* What websocket.receive_text() gives the inbound loop: a text that
\* json.loads parses to v, a text it cannot parse, or WebSocketDisconnect.
Json(v) == [t |-> "json", v |-> v]
NotJson == [t |-> "text"]
WebSocketDisconnect == [t |-> "disconnect"]

AudioIn == {"AAAA", "BBBB"}
InboundAudioData(b64) ==
    Json(Obj([kind |-> Str("AudioData"),
              audioData |-> Obj([data |-> Str(b64)])]))
InboundAudioMetadata == Json(Obj([kind |-> Str("AudioMetadata")]))
InboundTexts ==
    {InboundAudioData(a) : a \in AudioIn}
    \cup {InboundAudioMetadata,
          Json(Obj([audioData |-> Obj([data |-> Str("AAAA")])])),
          Json(Obj([kind |-> Str("AudioData")])),
          NotJson}

\* d[key] of a dict: KeyError when the key is missing
HasKey(d, key) == HasAttr(d, key)

\* RealtimeAudioEvent(audio=AudioContent(data=..., data_format="base64",
\* inner_content=data)) handed to client.send; ok: the send succeeds
RealtimeAudioEvent(b64, inner, ok) ==
    [audio |-> [data |-> b64, data_format |-> "base64", inner_content |-> inner],
     ok |-> ok]

\* Result of one iteration of the inbound loop: the events it sent and
\* whether it left the loop (except Exception: ... break).
InRes(sent, stop) == [sent |-> sent, stop |-> stop]

\* An inbound loop that ends at the first frame which is not audio.
from_acs_to_realtime_audio_only(stream_data, ok) ==
    IF stream_data.t # "json" THEN InRes(<<>>, TRUE)
    ELSE LET data == stream_data.v
         IN  IF ~HasKey(data, "kind") THEN InRes(<<>>, TRUE)
             ELSE IF data.f.kind = Str("AudioData")
                  THEN IF HasKey(data, "audioData")
                          /\ HasKey(data.f.audioData, "data")
                       THEN InRes(<<RealtimeAudioEvent(data.f.audioData.f.data,
                                                       data, ok)>>, ~ok)
                       ELSE InRes(<<>>, TRUE)
                  ELSE InRes(<<>>, TRUE)

\* One iteration of from_acs_to_realtime on what receive_text returned.
from_acs_to_realtime(stream_data, ok) ==
    IF stream_data.t # "json" THEN InRes(<<>>, TRUE)
    ELSE LET data == stream_data.v
         IN  IF ~HasKey(data, "kind") THEN InRes(<<>>, TRUE)
             ELSE IF data.f.kind = Str("AudioData")
                  THEN IF HasKey(data, "audioData")
                          /\ HasKey(data.f.audioData, "data")
                       THEN InRes(<<RealtimeAudioEvent(data.f.audioData.f.data,
                                                       data, ok)>>, ~ok)
                       ELSE InRes(<<>>, TRUE)
                  ELSE InRes(<<>>, FALSE)

InitConn ==
    /\ impl = MN
    /\ is_development_mode = FALSE
    /\ chat_history = <<>>
    /\ idx_first_msg_to_send = 0
    /\ wsLog = <<>>
    /\ loop = "unstarted"
    /\ nEvents = 0
    /\ last = [event |-> NoEvent, len |-> 0, idx |-> 0, ws |-> 0,
               exc |-> FALSE, flushed |-> FALSE]
    /\ prev = last
    /\ audio_out = <<>>
    /\ handler = "connecting"
    /\ inbound_log = <<>>
    /\ model_log = <<>>
    /\ teardown = <<>>
    /\ ws_send_blocked = FALSE
    /\ AppIdle

\* websocket.accept() on a request without x-ms-call-connection-id:
\* close(code=1008) and return.
RejectNoCallId ==
    /\ handler = "connecting"
    /\ \E call_connection_id \in {None, Str("")} :
         ~Truthy(call_connection_id)
    /\ handler' = "returned"
    /\ teardown' = Append(teardown, "websocket.close(1008)")
    /\ UNCHANGED <<loopvars, inbound_log, model_log, ws_send_blocked, appvars>>

\* The setup up to "async with realtime_client(...)": the transcript gets
\* the system message; entered: the model connection opens, and the event
\* loop is started as receive_task.  Otherwise __aenter__ raises.
Connect ==
    /\ handler = "connecting"
    /\ \E call_connection_id \in {Str("call-1")}, entered \in BOOLEAN :
         /\ Truthy(call_connection_id)
         /\ chat_history' = add_system_message(<<>>, Instructions)
         /\ idx_first_msg_to_send' = IF entered THEN LoopStart(chat_history')
                                     ELSE idx_first_msg_to_send
         /\ loop' = IF entered THEN "running" ELSE "unstarted"
         /\ handler' = IF entered THEN "inbound" ELSE "raised"
         /\ last' = IF entered
                    THEN [last EXCEPT !.len = Len(chat_history'),
                                      !.idx = LoopStart(chat_history')]
                    ELSE last
         /\ prev' = last'
    /\ UNCHANGED <<impl, is_development_mode, wsLog, nEvents, audio_out,
                   inbound_log, model_log, teardown, ws_send_blocked,
                   appvars>>

\* An inbound loop that takes turns with the outbound path: it runs only
\* while receive_task is not suspended in a write.
InboundRunning_in_turn == handler = "inbound" /\ ~ws_send_blocked

\* The inbound loop runs in the coroutine of agent_connect, next to
\* receive_task, until it breaks.
InboundRunning == handler = "inbound"

\* What receive_task was doing when the inbound loop sent an event.
Outbound ==
    IF loop # "running" THEN loop
    ELSE IF ws_send_blocked THEN "suspended in send_text"
    ELSE "waiting for the next event"

\* client.send(event): the event goes to the model connection.
Sent(events) ==
    [i \in 1..Len(events) |-> [event |-> events[i], outbound |-> Outbound]]

\* An inbound loop without its except clause: the exception leaves
\* from_acs_to_realtime and, through "async with", agent_connect.
LeaveInbound_propagate(stop) ==
    /\ handler' = IF stop THEN "raised" ELSE "inbound"
    /\ teardown' = teardown

\* The inbound loop left: receive_task.cancel() and the exit of the
\* "async with" begin without another await between them.
LeaveInbound(stop) ==
    /\ handler' = IF stop THEN "exiting" ELSE "inbound"
    /\ teardown' = IF stop THEN Append(teardown, "receive_task.cancel()")
                   ELSE teardown

\* One iteration of the inbound loop on a text frame.
InboundFrame ==
    /\ InboundRunning
    /\ Len(inbound_log) < MaxFrames
    /\ \E stream_data \in InboundTexts, ok \in BOOLEAN :
         LET r == from_acs_to_realtime(stream_data, ok)
         IN  /\ inbound_log' = Append(inbound_log, stream_data)
             /\ model_log' = model_log \o Sent(r.sent)
             /\ LeaveInbound(r.stop)
    /\ UNCHANGED <<loopvars, ws_send_blocked, appvars>>

\* receive_text raises: the telephony socket closed.
InboundClosed ==
    /\ InboundRunning
    /\ inbound_log' = Append(inbound_log, WebSocketDisconnect)
    /\ LeaveInbound(TRUE)
    /\ UNCHANGED <<loopvars, model_log, ws_send_blocked, appvars>>

\* __aexit__ of the realtime client closes the model connection; when the
\* close raises the exception leaves agent_connect.
ModelClose ==
    /\ handler = "exiting"
    /\ \E ok \in BOOLEAN : handler' = IF ok THEN "returned" ELSE "raised"
    /\ teardown' = Append(teardown, "model connection closed")
    /\ UNCHANGED <<loopvars, inbound_log, model_log, ws_send_blocked, appvars>>

\* The telephony socket stops, or starts again, taking writes: while it
\* takes none, receive_task stays suspended in a handler's send_text.
SocketBackpressure ==
    /\ handler = "inbound" /\ loop = "running"
    /\ ws_send_blocked' = ~ws_send_blocked
    /\ UNCHANGED <<loopvars, handler, inbound_log, model_log, teardown,
                   appvars>>

NextConn ==
    \/ RejectNoCallId
    \/ Connect
    \/ InboundFrame
    \/ InboundClosed
    \/ ModelClose
    \/ TaskCancelled
    \/ SocketBackpressure
    \/ SessionCreated
    \/ Error
    \/ AudioBufferCleared
    \/ SpeechStarted
    \/ UserTranscriptionDone
    \/ UserTranscriptionFailed
    \/ AssistantTranscriptDone
    \/ ResponseDone
    \/ ToolCallCreate
    \/ AudioDelta
    \/ OtherEvent
    \/ ReceiveRaises
    \/ ReceiveEnds

SpecConn == InitConn /\ [][NextConn]_vars

(***************************************************************************)
(* The helper functions, called on their own with arguments drawn from     *)
(* bounded sets.                                                           *)
(***************************************************************************)
\* The event loop and the connection handler are not running.
SessionIdle ==
    /\ impl = MN
    /\ is_development_mode = FALSE
    /\ chat_history = <<>>
    /\ idx_first_msg_to_send = 0
    /\ wsLog = <<>>
    /\ loop = "unstarted"
    /\ nEvents = 0
    /\ last = [event |-> NoEvent, len |-> 0, idx |-> 0, ws |-> 0,
               exc |-> FALSE, flushed |-> FALSE]
    /\ prev = last
    /\ audio_out = <<>>
    /\ handler = "none"
    /\ inbound_log = <<>>
    /\ model_log = <<>>
    /\ teardown = <<>>
    /\ ws_send_blocked = FALSE

\* Payload objects and dotted paths (already split on ".") for _get.
GetObjects ==
    {None,
     Str("session"),
     Obj([transcript |-> Str("I need apples")]),
     Obj([session |-> None]),
     Obj([session |-> Num(0)]),
     Obj([session |-> Obj([id |-> Str("sess_1")])]),
     Obj([session |-> Obj([id |-> None])]),
     Obj([session |-> Obj([id |-> Num(0)])]),
     Obj([session |-> Obj([model |-> Str("gpt")])])}
GetPaths == {<<"session">>, <<"session", "id">>, <<"transcript">>, <<"">>}
GetDefaults == {None, Str("<unknown>")}

\* The messages and transcripts export_chat_history is called with.
InvocationArguments ==
    {Str(ArgsJsonText), Str(ArgsRawText), Obj([slot_id |-> Str("3")]), None}
ExportMessages ==
    {Msg("user", "I need apples", <<>>),
     Msg("assistant", "", <<>>),
     Msg("tool", "",
         <<FunctionResult("schedule_delivery", "delivery",
                          "Delivery has been scheduled for slot 3")>>)}
    \cup {Msg("assistant", "", <<FunctionCall("schedule_delivery", "delivery", a)>>) :
             a \in InvocationArguments}
    \cup {Msg("assistant", "One moment",
              <<FunctionCall("schedule_delivery", "delivery", Str(ArgsJsonText))>>)}

ExportTranscripts ==
    UNION {[1..n -> ExportMessages] : n \in 0..MaxExportLen}

\* sk_utils.export_chat_history: json.loads(item.arguments) without a
\* guard.  TRUE iff the call raises on the slice it exports.
sk_export_raises(h, from_index) ==
    LET raw == Slice(h, from_index)
    IN  \E i \in 1..Len(raw) : \E k \in 1..Len(raw[i].items) :
           /\ raw[i].items[k].kind = "Invocation"
           /\ \/ raw[i].items[k].arguments.t # "str"
              \/ ~json_loads(raw[i].items[k].arguments.s).ok

\* what it returns when it does not raise
sk_export_chat_history(h, from_index) == export_chat_history(h, from_index)

\* agents/utils.export_chat_history has no raising path on these inputs.
export_raises(h, from_index) == FALSE

AGENTS_UTILS == "agents/utils.py"
SK_UTILS == "sk_utils.py"

(***************************************************************************)
(* eval/metrics/function_call_evaluator.py                                 *)
(***************************************************************************)
MaxCallList == 2
MaxUnexpected == 1

\* d.get(key, None) of a dict
dict_get(d, key) == getattr(d, key)

\* truthiness of what d.get returns: None and the empty dict are falsy
DictTruthy(v) == v.t = "obj" /\ DOMAIN v.f # {}

\* the dicts the evaluator is called with (function calls exported from a
\* transcript, or written in a test case)
FunctionCallDicts ==
    { Obj([plugin |-> Str("delivery"), function_name |-> Str("schedule_delivery"),
           arguments |-> Obj([slot_id |-> Str("3")])]),
      Obj([plugin |-> Str("delivery"), function_name |-> Str("schedule_delivery"),
           arguments_used |-> Obj([slot_id |-> Str("4")])]),
      Obj([plugin |-> Str("delivery"), function_name |-> Str("schedule_delivery")]),
      Obj([plugin |-> Str("delivery"), function_name |-> Str("get_available_slots"),
           arguments |-> Obj([k \in {} |-> None])]) }

CallLists(n) == UNION {[1..k -> FunctionCallDicts] : k \in 0..n}

\* the FunctionCall dataclass of the evaluator
FunctionCall_dataclass(plugin, name, arguments) ==
    [plugin |-> plugin, name |-> name, arguments |-> arguments]

\* FunctionCall.from_dict
from_dict(source) ==
    FunctionCall_dataclass(source.f["plugin"], source.f["function_name"],
                 IF DictTruthy(dict_get(source, "arguments"))
                 THEN dict_get(source, "arguments")
                 ELSE dict_get(source, "arguments_used"))

\* FunctionCall.__eq__
__eq__(self, value) ==
    LET is_equal == self.plugin = value.plugin /\ self.name = value.name
    IN  IF self.arguments # None /\ value.arguments # None
        THEN is_equal /\ self.arguments = value.arguments
        ELSE is_equal

\* fcall in calls
In(fcall, calls) == \E i \in 1..Len(calls) : __eq__(calls[i], fcall)

\* sum(1 for fcall in calls if fcall in others)
CountIn(calls, others) ==
    Cardinality({i \in 1..Len(calls) : In(calls[i], others)})

\* a float result, kept as the exact fraction num / den
Frac(num, den) == [num |-> num, den |-> den]

\* FunctionCallEvaluator.__call__
FunctionCallEvaluator(function_calls, expected_function_calls, unexpected_function_calls) ==
    LET actual == [i \in 1..Len(function_calls) |-> from_dict(function_calls[i])]
        expected == [i \in 1..Len(expected_function_calls) |->
                        from_dict(expected_function_calls[i])]
        unexpected == [i \in 1..Len(unexpected_function_calls) |->
                          from_dict(unexpected_function_calls[i])]
        nmatches_expected == CountIn(actual, expected)
        nmatches_unexpected == CountIn(actual, unexpected)
        precision == IF Len(actual) > 0
                     THEN Frac(nmatches_expected, Len(actual)) ELSE Frac(0, 1)
        recall == IF Len(expected) > 0
                  THEN Frac(nmatches_expected, Len(expected)) ELSE Frac(0, 1)
        \* precision + recall as one fraction
        psum == Frac(precision.num * recall.den + recall.num * precision.den,
                     precision.den * recall.den)
        f1 == IF psum.num > 0
              THEN Frac(2 * precision.num * recall.num, psum.num)
              ELSE Frac(0, 1)
    IN  IF \/ \E i \in 1..Len(expected) : In(expected[i], unexpected)
           \/ \E i \in 1..Len(unexpected) : In(unexpected[i], expected)
        THEN [raised |-> TRUE]
        ELSE [raised |-> FALSE,
              precision |-> precision, recall |-> recall, f1 |-> f1,
              total |-> Len(actual), expected |-> Len(expected),
              tp |-> nmatches_expected,
              fp |-> Len(actual) - nmatches_expected,
              fn |-> Len(expected) - nmatches_expected,
              faults |-> nmatches_unexpected]

InitFn == SessionIdle /\ AppIdle

Call_get ==
    /\ \E obj \in GetObjects, path \in GetPaths, default \in GetDefaults :
         fn_call' = [fn |-> "_get", obj |-> obj, path |-> path,
                     default |-> default, out |-> _get(obj, path, default)]
    /\ UNCHANGED <<loopvars, connvars, chatvars, evalvars>>

Call_export_chat_history ==
    /\ \E module \in {AGENTS_UTILS, SK_UTILS}, h \in ExportTranscripts,
          from_index \in 0..(MaxExportLen + 1) :
         LET raised == IF module = SK_UTILS
                       THEN sk_export_raises(h, from_index)
                       ELSE export_raises(h, from_index)
         IN  fn_call' = [fn |-> "export_chat_history", module |-> module,
                         h |-> h, from_index |-> from_index,
                         raised |-> raised,
                         out |-> IF raised THEN <<>>
                                 ELSE IF module = SK_UTILS
                                 THEN sk_export_chat_history(h, from_index)
                                 ELSE export_chat_history(h, from_index)]
    /\ UNCHANGED <<loopvars, connvars, chatvars, evalvars>>

NextFn ==
    \/ Call_get
    \/ Call_export_chat_history

SpecFn == InitFn /\ [][NextFn]_vars

\* One evaluation of a test case.  The evaluator keeps no state between
\* calls, so a run makes one call, on any of the inputs.
Call_FunctionCallEvaluator ==
    /\ fn_call = NoCall
    /\ \E function_calls \in CallLists(MaxCallList),
          expected_function_calls \in CallLists(MaxCallList),
          unexpected_function_calls \in CallLists(MaxUnexpected) :
         fn_call' = [fn |-> "FunctionCallEvaluator",
                     function_calls |-> function_calls,
                     expected_function_calls |-> expected_function_calls,
                     unexpected_function_calls |-> unexpected_function_calls,
                     out |-> FunctionCallEvaluator(function_calls,
                                                   expected_function_calls,
                                                   unexpected_function_calls)]
    /\ UNCHANGED <<loopvars, connvars, chatvars, evalvars>>

NextMetrics == Call_FunctionCallEvaluator

SpecMetrics == InitFn /\ [][NextMetrics]_vars

(***************************************************************************)
(* DeliveryPlugin (agents/plugins/delivery.py and plugins/delivery.py).    *)
(* An instance holds current_verified_order_number; verified notes that a  *)
(* verify call has returned its success message on the instance.           *)
(***************************************************************************)
DeliveryPlugin == [current_verified_order_number |-> None, verified |-> FALSE]

\* Outcome of a plugin call: the instance afterwards, "returned" or the
\* kind of error raised, and the returned text.
ToolRes(p, outcome, result) == [p |-> p, outcome |-> outcome, result |-> result]


verify_identity_for_order(p, order_number) ==
    ToolRes([current_verified_order_number |-> Num(order_number),
             verified |-> TRUE],
            "returned",
            Str("Customer has been verified against order "
                \o ToString(order_number)
                \o ". Delivery actions against this order can now be performed."))

\* schedule_delivery without the identity check.
schedule_delivery_unchecked(p, slot_id) ==
    ToolRes(p, "returned",
            Str("Delivery has been scheduled for slot " \o slot_id \o "."))

schedule_delivery(p, slot_id) ==
    IF ~Truthy(p.current_verified_order_number)
    THEN ToolRes(p, "precondition error", None)
    ELSE ToolRes(p, "returned",
                 Str("Delivery has been scheduled for slot " \o slot_id \o "."))

\* date.fromisoformat(start_date) succeeds
IsIsoDate(start_date) == start_date = "2025-01-01"

\* The slots drawn at random are not modelled: the result stands for
\* either the list of slots or the text saying there are none.
get_available_slots_for_delivery(p, start_date) ==
    IF ~Truthy(p.current_verified_order_number)
    THEN ToolRes(p, "precondition error", None)
    ELSE IF ~IsIsoDate(start_date) THEN ToolRes(p, "invalid date", None)
    ELSE ToolRes(p, "returned", Str("<slots>"))

\* The calls the model makes on the delivery plugin.
ToolCalls ==
    {[fn |-> "verify_identity_for_order", arg |-> Num(n)] : n \in {0, 12345}}
    \cup {[fn |-> "schedule_delivery", arg |-> Str("3")]}
    \cup {[fn |-> "get_available_slots_for_delivery", arg |-> Str(d)] :
             d \in {"2025-01-01", "tomorrow"}}

Invoke(call, p) ==
    CASE call.fn = "verify_identity_for_order" ->
           verify_identity_for_order(p, call.arg.n)
      [] call.fn = "schedule_delivery" -> schedule_delivery(p, call.arg.s)
      [] OTHER -> get_available_slots_for_delivery(p, call.arg.s)

(***************************************************************************)
(* The chat application (chat.py): ConversationManager, the /chat handler  *)
(* and, next to it, telephony sessions as agent_connect sets them up.      *)
(***************************************************************************)
\* f"chat_{self._conversation_counter}"
ChatId(n) == "chat_" \o ToString(n)

\* conversation_id of a request: absent, or a text the client chose
RequestIds == {None, Str("chat_1")}

\* A session object: a Conversation (chat_agent with its plugin, thread) or
\* the locals of one agent_connect (kernel with its plugin, chat_history,
\* idx_first_msg_to_send).  plugin and thread refer into plugins, threads.
SessionObject(kind, id, plugin, h) ==
    [kind |-> kind, id |-> id, plugin |-> plugin, thread |-> 0,
     transcript |-> h, idx |-> LoopStart(h)]

\* A session sharing the first plugin instance ever made.
NewPlugin_shared(ps) == 1

\* DeliveryPlugin(): the reference of a new instance
NewPlugin(ps) == Len(ps) + 1


\* ConversationManager.get_conversation: 0 stands for None
get_conversation(conversation_id) ==
    IF conversation_id \in DOMAIN _conversations
    THEN _conversations[conversation_id] ELSE 0

\* ConversationManager.add_conversation: self._conversations[id] = conversation
add_conversation(conversation_id, ref) ==
    [id \in DOMAIN _conversations \cup {conversation_id} |->
        IF id = conversation_id THEN ref ELSE _conversations[id]]

\* get_response(messages=..., thread=t) up to its first suspension: with no
\* thread the agent makes a new one; the turn is added to the thread.
BeginResponse(r, t) ==
    IF t = 0 THEN Append(threads, {r})
    ELSE [threads EXCEPT ![t] = @ \cup {r}]
ThreadOf(t) == IF t = 0 THEN Len(threads) + 1 ELSE t

InitChat == SessionIdle /\ AppIdle

\* chat(): the conversation id, the lookup, and for a stored conversation
\* the start of get_response.  Requests are numbered in order of arrival.
ChatStart(r) ==
    /\ requests[r].pc = "new"
    /\ \A q \in 1..(r - 1) : requests[q].pc # "new"
    /\ \E conversation_id \in RequestIds :
         LET given == Truthy(conversation_id)
             id == IF given THEN conversation_id.s
                   ELSE ChatId(_conversation_counter + 1)
             conversation == get_conversation(id)
         IN  /\ _conversation_counter' = IF given THEN _conversation_counter
                                         ELSE _conversation_counter + 1
             /\ requests' = [requests EXCEPT ![r] =
                   [pc |-> IF conversation = 0 THEN "setup" ELSE "responding",
                    conversation_id |-> id, given |-> given,
                    stored_before |-> conversation # 0,
                    conversation |-> conversation,
                    thread |-> IF conversation = 0 THEN 0
                               ELSE ThreadOf(objects[conversation].thread)]]
             /\ threads' = IF conversation = 0 THEN threads
                           ELSE BeginResponse(r, objects[conversation].thread)
    /\ UNCHANGED <<loopvars, connvars, fn_call, evalvars,
                   _conversations, objects,
                   plugins, tool_call>>

\* await setup_chat_agent(...) returned: the Conversation is made and
\* stored, and get_response starts with thread None.
ChatSetupDone(r) ==
    /\ requests[r].pc = "setup"
    /\ LET plugin == NewPlugin(plugins)
           conversation == Len(objects) + 1
       IN  /\ plugins' = IF plugin > Len(plugins)
                         THEN Append(plugins, DeliveryPlugin) ELSE plugins
           /\ objects' = Append(objects,
                  SessionObject("chat", requests[r].conversation_id, plugin, <<>>))
           /\ _conversations' =
                  add_conversation(requests[r].conversation_id, conversation)
           /\ threads' = BeginResponse(r, 0)
           /\ requests' = [requests EXCEPT ![r].pc = "responding",
                                           ![r].conversation = conversation,
                                           ![r].thread = ThreadOf(0)]
    /\ UNCHANGED <<loopvars, connvars, fn_call, evalvars,
                   _conversation_counter,
                   tool_call>>

\* The model calls a function of the session's delivery plugin.
CallTool(session, call) ==
    LET ref == objects[session].plugin
        res == Invoke(call, plugins[ref])
    IN  /\ tool_call.n < MaxToolCalls
        /\ plugins' = [plugins EXCEPT ![ref] = res.p]
        /\ tool_call' = [n |-> tool_call.n + 1, session |-> session,
                         plugin |-> ref, fn |-> call.fn, arg |-> call.arg,
                         before |-> plugins[ref], after |-> res.p,
                         outcome |-> res.outcome, result |-> res.result]
        /\ objects' =
             IF objects[session].kind = "call" /\ res.outcome = "returned"
             THEN [objects EXCEPT ![session].transcript =
                     add_tool_message(@, <<FunctionResult(call.fn, "delivery",
                                                          res.result.s)>>)]
             ELSE objects

ChatToolCall(r) ==
    /\ requests[r].pc = "responding"
    /\ \E call \in ToolCalls : CallTool(requests[r].conversation, call)
    /\ UNCHANGED <<loopvars, connvars, fn_call, evalvars,
                   _conversations,
                   _conversation_counter, threads, requests>>

\* get_response returned: conversation.thread = response.thread
ChatFinish(r) ==
    /\ requests[r].pc = "responding"
    /\ objects' = [objects EXCEPT ![requests[r].conversation].thread =
                                      requests[r].thread]
    /\ requests' = [requests EXCEPT ![r].pc = "done"]
    /\ UNCHANGED <<loopvars, connvars, fn_call, evalvars,
                   _conversations,
                   _conversation_counter, plugins, threads, tool_call>>

\* setup_chat_agent or get_response raises: the handler answers 500.
ChatFails(r) ==
    /\ requests[r].pc \in {"setup", "responding"}
    /\ requests' = [requests EXCEPT ![r].pc = "failed"]
    /\ UNCHANGED <<loopvars, connvars, fn_call, evalvars,
                   _conversations,
                   _conversation_counter, objects, plugins, threads,
                   tool_call>>

\* agent_connect sets up a telephony session: Kernel() with its own
\* DeliveryPlugin(), ChatHistory() with the system message.
CallConnect ==
    /\ Cardinality({o \in 1..Len(objects) : objects[o].kind = "call"}) < MaxCalls
    /\ LET plugin == NewPlugin(plugins)
       IN  /\ plugins' = IF plugin > Len(plugins)
                         THEN Append(plugins, DeliveryPlugin) ELSE plugins
           /\ objects' = Append(objects,
                  SessionObject("call", "", plugin,
                                add_system_message(<<>>, Instructions)))
    /\ UNCHANGED <<loopvars, connvars, fn_call, evalvars,
                   _conversations,
                   _conversation_counter, threads, requests, tool_call>>

CallToolCall(o) ==
    /\ o \in 1..Len(objects)
    /\ objects[o].kind = "call"
    /\ \E call \in ToolCalls : CallTool(o, call)
    /\ UNCHANGED <<loopvars, connvars, fn_call, evalvars,
                   _conversations,
                   _conversation_counter, threads, requests>>

\* ResponseDone in a telephony session: the pending records are written
\* and idx_first_msg_to_send = len(chat_history.messages)
CallResponseDone(o) ==
    /\ o \in 1..Len(objects)
    /\ objects[o].kind = "call"
    /\ objects[o].idx < Len(objects[o].transcript)
    /\ objects' = [objects EXCEPT ![o].idx = Len(objects[o].transcript)]
    /\ UNCHANGED <<loopvars, connvars, fn_call, evalvars,
                   _conversations,
                   _conversation_counter, plugins, threads, requests,
                   tool_call>>

NextChat ==
    \/ \E r \in 1..MaxRequests : ChatStart(r)
    \/ \E r \in 1..MaxRequests : ChatSetupDone(r)
    \/ \E r \in 1..MaxRequests : ChatToolCall(r)
    \/ \E r \in 1..MaxRequests : ChatFinish(r)
    \/ \E r \in 1..MaxRequests : ChatFails(r)
    \/ CallConnect
    \/ \E o \in 1..(MaxRequests + MaxCalls) : CallToolCall(o)
    \/ \E o \in 1..(MaxRequests + MaxCalls) : CallResponseDone(o)

SpecChat == InitChat /\ [][NextChat]_vars

TypeOK ==
    /\ impl \in {RE, AU, MN}
    /\ is_development_mode \in BOOLEAN
    /\ idx_first_msg_to_send \in 0..Len(chat_history)
    /\ loop \in {"unstarted", "running", "returned", "raised", "cancelled"}
    /\ nEvents \in 0..MaxEvents
    /\ handler \in {"none", "connecting", "inbound", "exiting", "returned",
                     "raised"}
    /\ ws_send_blocked \in BOOLEAN

(***************************************************************************)
(* Vocabulary of the properties.                                           *)
(***************************************************************************)
LastType == service_type(last.event)
PrevType == service_type(prev.event)

\* transcript entries appended by the latest / the previous handler
LastAppended == SubSeq(chat_history, last.len + 1, Len(chat_history))
PrevAppended == SubSeq(chat_history, prev.len + 1, last.len)

\* send_text calls made while handling the latest event / the latest two
LastWrites == SubSeq(wsLog, last.ws + 1, Len(wsLog))
LastTwoWrites == SubSeq(wsLog, prev.ws + 1, Len(wsLog))

IsChatHistory(f) == f.kind = "ChatHistory"
IsStopAudio(f) == f.kind = "StopAudio"
IsTranscription(f) == f.kind = "Transcription"
IsAgentError(f) == f.kind = "AgentError"

\* the text of a transcription event ("" when absent)
TranscriptOf(e) ==
    LET v == _get(service_event(e), <<"transcript">>, None)
    IN  IF v = None THEN "" ELSE v.s

RECURSIVE ConcatData(_)
ConcatData(frames) ==
    IF frames = <<>> THEN <<>>
    ELSE Head(frames).data.items \o ConcatData(Tail(frames))

\* A ChatHistory flush that ran to completion: the write succeeded, or it
\* failed inside send_chat_history, which contains the failure.
IsFlush(f) == IsChatHistory(f) /\ (f.ok \/ impl = RE)

\* VoiceCallClient.receive_messages: chat_history.extend(data) for every
\* ChatHistory frame that arrives
RECURSIVE receive_messages(_)
receive_messages(frames) ==
    IF frames = <<>> THEN <<>>
    ELSE IF Head(frames).kind = "ChatHistory"
         THEN Head(frames).data.items \o receive_messages(Tail(frames))
         ELSE receive_messages(Tail(frames))

\* the frames that reached the client
Delivered == SelectSeq(wsLog, LAMBDA f : f.ok)

\* the export of transcript positions from..to-1 (0-based)
ExportRange(from, to) ==
    [i \in 1..(to - from) |-> ExportMsg(chat_history[from + i])]

(***************************************************************************)
(* C1  The unsent watermark idx_first_msg_to_send never decreases, never   *)
(* exceeds the transcript length, and right after every flush (a handler   *)
(* that ran the ChatHistory publication: ResponseDone in every copy of the *)
(* loop, and Error in realtime_events.py) it equals the transcript length. *)
(***************************************************************************)
C1_WatermarkMonotone ==
    /\ idx_first_msg_to_send >= last.idx
    /\ last.idx >= prev.idx
    /\ idx_first_msg_to_send <= Len(chat_history)
    /\ (last.flushed => idx_first_msg_to_send = Len(chat_history))
    /\ (/\ LastType = RESPONSE_DONE \/ (LastType = ERROR /\ impl = RE)
        /\ ~last.exc
        => last.flushed /\ idx_first_msg_to_send = Len(chat_history))

\* a flush that moved the watermark over two pending entries
C1_Witness ==
    /\ last.flushed
    /\ idx_first_msg_to_send >= last.idx + 2
    /\ idx_first_msg_to_send = Len(chat_history)

(***************************************************************************)
(* C2 (as stated)  Concatenating the data of all published ChatHistory     *)
(* frames reconstructs the full transcript: after a flush every transcript *)
(* entry is in exactly one delta.                                          *)
(***************************************************************************)
C2_FullTranscriptReconstructed ==
    last.flushed =>
        ConcatData(SelectSeq(wsLog, IsFlush)) = ExportRange(0, Len(chat_history))

(***************************************************************************)
(* C2 (amended)  Concatenating, in publication order, the data of all      *)
(* ChatHistory deltas flushed so far yields exactly the transcript entries *)
(* from the loop-start length up to the watermark, each once and in append *)
(* order; entries present at loop start are in no delta; what the          *)
(* evaluation client accumulates is that sequence when no write failed.    *)
(***************************************************************************)
C2_DeltasReconstructSentSlice ==
    LET start == LoopStart(<<Msg("system", Instructions, <<>>)>>)
    IN  /\ ConcatData(SelectSeq(wsLog, IsFlush))
             = ExportRange(start, idx_first_msg_to_send)
        /\ ((\A i \in 1..Len(wsLog) : IsChatHistory(wsLog[i]) => wsLog[i].ok)
            => receive_messages(Delivered) = ExportRange(start, idx_first_msg_to_send))

\* two non-empty deltas have been flushed
C2_Witness ==
    LET fl == SelectSeq(wsLog, IsFlush)
    IN  /\ Len(fl) >= 2
        /\ fl[1].data.items # <<>>
        /\ fl[2].data.items # <<>>
        /\ fl[1].ok /\ fl[2].ok

\* the handler of the latest / previous event was a transcription-done
\* handler of the given type that saw a non-empty text
LastHeard(type) == LastType = type /\ TranscriptOf(last.event) # ""
PrevHeard(type) == PrevType = type /\ TranscriptOf(prev.event) # ""

\* the ChatHistory frames written while handling the latest event(s)
LastDeltas == SelectSeq(LastWrites, IsChatHistory)
LastTwoDeltas == SelectSeq(LastTwoWrites, IsChatHistory)

\* UserTranscriptionDone(T) and then ResponseDone were handled to the end
UserThenResponseDone ==
    /\ impl \in {RE, AU}
    /\ PrevHeard(TRANSCRIPTION_COMPLETED) /\ ~prev.exc
    /\ LastType = RESPONSE_DONE /\ ~last.exc

\* the two events wrote one ChatHistory frame holding the one user entry,
\* and moved the watermark by one
OneUserEntryDelta ==
    /\ Len(LastTwoDeltas) = 1
    /\ LastTwoDeltas[1].data.items
         = <<[role |-> "user", content |-> TranscriptOf(prev.event)]>>
    /\ idx_first_msg_to_send = prev.idx + 1

(***************************************************************************)
(* C3 (as stated)  From any session state, UserTranscriptionDone with a    *)
(* non-empty transcript T followed by ResponseDone writes exactly one      *)
(* ChatHistory frame, holding exactly the one entry (user, T), and the     *)
(* watermark advances by exactly 1.                                        *)
(***************************************************************************)
C3_FromAnyState == UserThenResponseDone => OneUserEntryDelta

(***************************************************************************)
(* C3 (amended)  From a session state with no unsent entry (watermark =    *)
(* transcript length), UserTranscriptionDone(T), T non-empty, followed by  *)
(* ResponseDone writes exactly one ChatHistory frame, holding exactly the  *)
(* one entry (user, T), and the watermark advances by exactly 1.           *)
(***************************************************************************)
C3_FromFlushedState ==
    UserThenResponseDone /\ prev.idx = prev.len => OneUserEntryDelta

C3_Witness ==
    /\ UserThenResponseDone /\ prev.idx = prev.len
    /\ impl = RE
    /\ TranscriptOf(prev.event) = "I need apples"
    /\ LastTwoDeltas[1].ok

\* a ToolCallCreate event that carries a function result
CarriesResult(e) ==
    /\ service_type(e) = CONVERSATION_ITEM_CREATE
    /\ getattr(e, "function_result") # None

ToolEntry(e) == Msg("tool", "", <<e.f.function_result>>)

(***************************************************************************)
(* C4 (as stated)  A ToolCallCreate event that carries a function result   *)
(* appends exactly one tool entry holding that Result record and publishes *)
(* a delta containing it while that same event is handled.                 *)
(***************************************************************************)
C4_PublishedInSameEvent ==
    CarriesResult(last.event) =>
        /\ LastAppended = <<ToolEntry(last.event)>>
        /\ \E i \in 1..Len(LastDeltas) :
             \E j \in 1..Len(LastDeltas[i].data.items) :
                LastDeltas[i].data.items[j] = ExportMsg(ToolEntry(last.event))

(***************************************************************************)
(* C4 (amended)  A ToolCallCreate event that carries a function result     *)
(* appends exactly one tool entry holding that Result record and writes no *)
(* frame and moves no watermark while it is handled; the entry is the last *)
(* unsent one, and a flush handled as the next event (ResponseDone, or     *)
(* Error in realtime_events.py) publishes it in its delta.                 *)
(***************************************************************************)
C4_AppendedThenFlushedLater ==
    /\ CarriesResult(last.event) =>
        /\ ~last.exc
        /\ LastAppended = <<ToolEntry(last.event)>>
        /\ LastWrites = <<>>
        /\ idx_first_msg_to_send = last.idx
    /\ CarriesResult(prev.event) /\ last.flushed =>
        /\ Len(LastDeltas) = 1
        /\ \E j \in 1..Len(LastDeltas[1].data.items) :
              LastDeltas[1].data.items[j] = ExportMsg(ToolEntry(prev.event))

C4_Witness ==
    /\ CarriesResult(prev.event) /\ last.flushed
    /\ LastDeltas[1].ok
    /\ LastDeltas[1].data.items[1].function_calls[1].result
         = "Delivery has been scheduled for slot 3"

\* the synthetic assistant message of the Error handler
Apology == Msg("assistant", TemporaryIssue, <<>>)

\* some ChatHistory frame written while handling the latest event holds
\* the export of entry m
LastDeltasHold(m) ==
    \E i \in 1..Len(LastDeltas) :
       \E j \in 1..Len(LastDeltas[i].data.items) :
          LastDeltas[i].data.items[j] = ExportMsg(m)

\* The latest handler did not end the loop: the loop still runs, or it
\* ended afterwards only because client.receive was exhausted or the task
\* was cancelled.
LoopSurvived ==
    loop \in {"running", "cancelled"} \/ (loop = "returned" /\ ~last.exc)

(***************************************************************************)
(* C5  Handling an Error service event appends exactly one synthetic       *)
(* assistant message, publishes a delta containing it, and leaves the loop *)
(* running so that the events after it are still consumed.                 *)
(***************************************************************************)
C5_ErrorAppendsApologyAndContinues ==
    LastType = ERROR =>
        /\ LastAppended = <<Apology>>
        /\ LastDeltasHold(Apology)
        /\ LoopSurvived

(***************************************************************************)
(* C6  Every SpeechStarted event makes the loop write exactly one          *)
(* StopAudio frame, whatever the payload (audio_start_ms missing or not)   *)
(* and the session state, and changes neither transcript nor watermark.    *)
(***************************************************************************)
C6_SpeechStartedStopsAudio ==
    LastType = INPUT_AUDIO_BUFFER_SPEECH_STARTED =>
        /\ Len(SelectSeq(LastWrites, IsStopAudio)) = 1
        /\ Len(chat_history) = last.len
        /\ idx_first_msg_to_send = last.idx

(***************************************************************************)
(* C7  A UserTranscriptionDone or AssistantTranscriptDone event whose text *)
(* is empty or absent leaves transcript and watermark unchanged and        *)
(* publishes no ChatHistory delta.                                         *)
(***************************************************************************)
C7_EmptyTranscriptionNoEffect ==
    /\ LastType \in {TRANSCRIPTION_COMPLETED, RESPONSE_AUDIO_TRANSCRIPT_DONE}
    /\ TranscriptOf(last.event) = ""
    => /\ Len(chat_history) = last.len
       /\ idx_first_msg_to_send = last.idx
       /\ LastDeltas = <<>>

\* the entry a transcription-done event of the given type stands for
HeardEntry(e) ==
    Msg(IF service_type(e) = TRANSCRIPTION_COMPLETED THEN "user" ELSE "assistant",
        TranscriptOf(e), <<>>)

LastHeardAny ==
    LastHeard(TRANSCRIPTION_COMPLETED) \/ LastHeard(RESPONSE_AUDIO_TRANSCRIPT_DONE)
PrevHeardAny ==
    PrevHeard(TRANSCRIPTION_COMPLETED) \/ PrevHeard(RESPONSE_AUDIO_TRANSCRIPT_DONE)

(***************************************************************************)
(* C8 (as stated)  Each UserTranscriptionDone or AssistantTranscriptDone   *)
(* event with non-empty text appends one entry of the matching role and    *)
(* publishes a ChatHistory delta containing it while that same event is    *)
(* handled.                                                                *)
(***************************************************************************)
C8_PublishedInSameEvent ==
    impl \in {RE, AU} /\ LastHeardAny =>
        /\ LastAppended = <<HeardEntry(last.event)>>
        /\ LastDeltasHold(HeardEntry(last.event))

(***************************************************************************)
(* C8 (amended)  Each UserTranscriptionDone or AssistantTranscriptDone     *)
(* event with non-empty text appends one entry of the matching role and    *)
(* writes no ChatHistory frame and moves no watermark while it is handled; *)
(* a flush handled as the next event (ResponseDone, or Error in            *)
(* realtime_events.py) publishes the entry in its delta.                   *)
(***************************************************************************)
C8_AppendedThenFlushedLater ==
    /\ impl \in {RE, AU} /\ LastHeardAny =>
        /\ LastAppended = <<HeardEntry(last.event)>>
        /\ LastDeltas = <<>>
        /\ idx_first_msg_to_send = last.idx
    /\ impl \in {RE, AU} /\ PrevHeardAny /\ last.flushed =>
        /\ Len(LastDeltas) = 1
        /\ LastDeltasHold(HeardEntry(prev.event))

C8_Witness ==
    /\ impl = RE
    /\ PrevHeard(RESPONSE_AUDIO_TRANSCRIPT_DONE)
    /\ LastType = RESPONSE_DONE /\ last.flushed
    /\ LastDeltas[1].ok
    /\ LastDeltas[1].data.items
         = <<[role |-> "assistant", content |-> TranscriptOf(prev.event)]>>

\* a Transcription frame for the given speaker written by the latest handler
LastCaption(speaker) ==
    \E i \in 1..Len(LastWrites) :
       IsTranscription(LastWrites[i]) /\ LastWrites[i].data.speaker = speaker

(***************************************************************************)
(* C9  A Transcription caption for assistant speech is written for every   *)
(* AssistantTranscriptDone event with non-empty text whatever              *)
(* is_development_mode is; a caption for user speech is written only when  *)
(* is_development_mode is true.                                            *)
(***************************************************************************)
C9_CaptionPolicy ==
    impl = RE =>
        /\ (LastHeard(RESPONSE_AUDIO_TRANSCRIPT_DONE) => LastCaption("assistant"))
        /\ (LastCaption("user") => is_development_mode)

(***************************************************************************)
(* C10  An exception raised while the loop handles one event does not end  *)
(* the loop: the synthetic temporary-issue assistant message is appended   *)
(* and the loop goes on consuming the events that follow.                  *)
(***************************************************************************)
C10_ExceptionDoesNotEndLoop ==
    impl = RE /\ last.exc =>
        /\ LoopSurvived
        /\ chat_history[Len(chat_history)] = Apology

\* the AgentError frames written while the latest event was handled
AgentErrorWrites == SelectSeq(LastWrites, IsAgentError)

(***************************************************************************)
(* C11  No exception raised inside the event loop (by the event stream, a  *)
(* handler or the AgentError write) leaves handle_realtime_messages: the   *)
(* loop attempts one AgentError frame, as its last write, and returns      *)
(* normally.  Stated for the copies of realtime_events.py and              *)
(* agents/utils.py.                                                        *)
(***************************************************************************)
C11_ExceptionContained ==
    impl \in {RE, AU} /\ last.exc =>
        /\ loop = "returned"
        /\ Len(AgentErrorWrites) = 1
        /\ IsAgentError(LastWrites[Len(LastWrites)])

\* the latest handler attempted a ChatHistory write and the socket refused it
LastDeltaFailed ==
    \E i \in 1..Len(LastWrites) :
       IsChatHistory(LastWrites[i]) /\ ~LastWrites[i].ok

(***************************************************************************)
(* C12  Publishing a delta never raises to its caller: when the write of   *)
(* the ChatHistory frame fails the failure is contained, the watermark is  *)
(* still advanced to the transcript length, so the entries of the failed   *)
(* delta are not sent again.                                               *)
(***************************************************************************)
C12_FailedDeltaContained ==
    LastDeltaFailed =>
        /\ ~last.exc
        /\ LoopSurvived
        /\ idx_first_msg_to_send = Len(chat_history)

\* base64.b64decode as the telephony client applies it to an AudioData frame
RECURSIVE b64decode(_)
b64decode(cs) ==
    IF Len(cs) < 4 THEN <<>>
    ELSE <<cs[1] * 4 + cs[2] \div 16>>
         \o (IF cs[3] = 64 THEN <<>>
             ELSE <<(cs[2] % 16) * 16 + cs[3] \div 4>>)
         \o (IF cs[4] = 64 THEN <<>> ELSE <<(cs[3] % 4) * 64 + cs[4]>>)
         \o b64decode(SubSeq(cs, 5, Len(cs)))

IsAudioData(f) == f.kind = "AudioData"

\* the AudioData frames written to the telephony socket, in write order
AudioFrames == SelectSeq(wsLog, IsAudioData)

(***************************************************************************)
(* C15  The AudioData frames written to the telephony socket are, in       *)
(* order, one frame per chunk delivered to the audio callback, each        *)
(* carrying the base64 text of its chunk (which decodes to the chunk's     *)
(* bytes): no chunk is dropped, duplicated or reordered, also after a      *)
(* SpeechStarted event.                                                    *)
(***************************************************************************)
C15_OneAudioFramePerChunk ==
    /\ Len(AudioFrames) = Len(audio_out)
    /\ \A i \in 1..Len(audio_out) :
         /\ AudioFrames[i].data.data = b64encode(audio_out[i])
         /\ b64decode(AudioFrames[i].data.data) = audio_out[i]

\* two different chunks with a barge-in between them
C15_Witness ==
    /\ Len(wsLog) = 3
    /\ IsAudioData(wsLog[1]) /\ IsStopAudio(wsLog[2]) /\ IsAudioData(wsLog[3])
    /\ audio_out = <<<<82, 73, 70>>, <<255>>>>
    /\ wsLog[1].data.data = <<20, 36, 37, 6>>
    /\ wsLog[3].data.data = <<63, 48, 64, 64>>

(***************************************************************************)
(* C19  The transcript is append-only: every step leaves the existing      *)
(* entries where and as they were and adds at most one entry, so the       *)
(* transcript length never decreases.                                      *)
(***************************************************************************)
C19_AppendOnly ==
    [][/\ Len(chat_history') \in {Len(chat_history), Len(chat_history) + 1}
       /\ SubSeq(chat_history', 1, Len(chat_history)) = chat_history]_vars

\* a transcript that grew by a user, a tool and an assistant entry
C19_Witness ==
    /\ Len(chat_history) = 4
    /\ chat_history[1].role = "system"
    /\ {chat_history[i].role : i \in 2..4} = {"user", "tool", "assistant"}

LogOnly == {SESSION_CREATED, INPUT_AUDIO_BUFFER_CLEARED, TRANSCRIPTION_FAILED}

(***************************************************************************)
(* C20  SessionCreated, AudioBufferCleared and UserTranscriptionFailed     *)
(* are log-only: the step that handles one leaves the transcript and the   *)
(* watermark as they were and writes no frame to the telephony socket.     *)
(***************************************************************************)
C20_LogOnlyEvents ==
    [][nEvents' = nEvents + 1 /\ service_type(last'.event) \in LogOnly
         => UNCHANGED <<chat_history, idx_first_msg_to_send, wsLog>>]_vars

\* a failed transcription handled by realtime_events.py while an entry is
\* waiting for its delta and a frame was written before
C20_Witness ==
    /\ impl = RE
    /\ LastType = TRANSCRIPTION_FAILED
    /\ ~last.exc
    /\ idx_first_msg_to_send < Len(chat_history)
    /\ wsLog # <<>>

(***************************************************************************)
(* Vocabulary of the connection handler's properties.                      *)
(***************************************************************************)
\* index of the first occurrence of a teardown step, 0 when it did not happen
Pos(step) ==
    IF \E i \in 1..Len(teardown) : teardown[i] = step
    THEN CHOOSE i \in 1..Len(teardown) :
            /\ teardown[i] = step
            /\ \A j \in 1..(i - 1) : teardown[j] # step
    ELSE 0

Times(step) == Cardinality({i \in 1..Len(teardown) : teardown[i] = step})

\* the telephony socket closed while the session was running
ClosedMidSession ==
    /\ inbound_log # <<>>
    /\ inbound_log[Len(inbound_log)] = WebSocketDisconnect

HandlerFinished == handler \in {"returned", "raised"}

(***************************************************************************)
(* C13  When the telephony socket closes mid-session the receive task is   *)
(* cancelled, the disconnect of the tool plugins is attempted exactly      *)
(* once, and no exception leaves agent_connect.                            *)
(***************************************************************************)
C13_CloseTornDownQuietly ==
    ClosedMidSession /\ HandlerFinished =>
        /\ Times("receive_task.cancel()") = 1
        /\ Times("tool plugins disconnect") = 1
        /\ handler = "returned"

(***************************************************************************)
(* C14  On socket close the handler cancels the receive task and waits     *)
(* for it to finish before a session resource is released; the teardown    *)
(* order is: receive loop stopped, tool plugins disconnected, model        *)
(* connection closed.                                                      *)
(***************************************************************************)
C14_TeardownOrder ==
    Pos("model connection closed") > 0 =>
        /\ Pos("receive_task.cancel()") > 0
        /\ Pos("receive_task done") \in 1..(Pos("model connection closed") - 1)
        /\ Pos("tool plugins disconnect")
             \in (Pos("receive_task done") + 1)..(Pos("model connection closed") - 1)

\* a text frame of kind AudioData that carries audio data
CarriesAudio(stream_data) ==
    /\ stream_data.t = "json"
    /\ HasKey(stream_data.v, "kind")
    /\ stream_data.v.f.kind = Str("AudioData")
    /\ HasKey(stream_data.v, "audioData")
    /\ HasKey(stream_data.v.f.audioData, "data")

\* a well-formed text frame of another kind
OtherKind(stream_data) ==
    /\ stream_data.t = "json"
    /\ HasKey(stream_data.v, "kind")
    /\ stream_data.v.f.kind # Str("AudioData")

\* the AudioData frames received so far, in receipt order
AudioReceived == SelectSeq(inbound_log, CarriesAudio)

(***************************************************************************)
(* C16  The audio events sent to the model connection are, in receipt      *)
(* order, one event per inbound AudioData frame, each carrying that        *)
(* frame's data; a frame of another kind is not forwarded and the inbound  *)
(* loop goes on after it.                                                  *)
(***************************************************************************)
C16_InboundAudioForwarded ==
    /\ Len(model_log) = Len(AudioReceived)
    /\ \A i \in 1..Len(model_log) :
         /\ model_log[i].event.audio.data
              = AudioReceived[i].v.f.audioData.f.data
         /\ model_log[i].event.audio.data_format = "base64"
         /\ model_log[i].event.audio.inner_content = AudioReceived[i].v
    /\ inbound_log # <<>> /\ OtherKind(inbound_log[Len(inbound_log)])
         => InboundRunning

\* a frame of another kind, then an AudioData frame that was forwarded
C16_Witness ==
    /\ inbound_log = <<InboundAudioMetadata, InboundAudioData("BBBB")>>
    /\ Len(model_log) = 1
    /\ model_log[1].event.audio.data = Str("BBBB")
    /\ model_log[1].event.ok
    /\ InboundRunning

\* the next iteration of the inbound loop forwards an AudioData frame
InboundForwards == InboundFrame /\ Len(model_log') = Len(model_log) + 1

(***************************************************************************)
(* C17  Inbound audio forwarding does not depend on the outbound path:     *)
(* whatever receive_task is doing (suspended in a write to the telephony   *)
(* socket, waiting for the next model event, or ended), as long as the     *)
(* inbound loop runs, an AudioData frame that arrives is forwarded to the  *)
(* model connection.                                                       *)
(***************************************************************************)
C17_InboundIndependent ==
    handler = "inbound" /\ Len(inbound_log) < MaxFrames
        => ENABLED InboundForwards

\* an AudioData frame was forwarded while the telephony socket took no
\* write and receive_task had not ended
C17_Witness ==
    /\ handler = "inbound"
    /\ Len(model_log) = 2
    /\ model_log[1].outbound = "suspended in send_text"
    /\ model_log[2].outbound = "waiting for the next event"
    /\ model_log[1].event.ok

(***************************************************************************)
(* C18  Neither the inbound audio loop nor the outbound audio callback     *)
(* changes the transcript or the watermark: every step in which one of     *)
(* them acts leaves both as they were.                                     *)
(***************************************************************************)
C18_TranscriptOwnedByLoop ==
    [][\/ inbound_log' # inbound_log
       \/ model_log' # model_log
       \/ audio_out' # audio_out
         => UNCHANGED <<chat_history, idx_first_msg_to_send>>]_vars

\* both paths acted in one session
C18_Witness ==
    /\ model_log # <<>>
    /\ audio_out # <<>>
    /\ Len(chat_history) = 1
    /\ idx_first_msg_to_send = 1

\* entry i of the transcript holds a record of the given kind for function fn
Holds(i, kind, fn) ==
    \E k \in 1..Len(chat_history[i].items) :
       /\ chat_history[i].items[k].kind = kind
       /\ chat_history[i].items[k].function_name = fn

(***************************************************************************)
(* C21  In every reachable transcript no Invocation record of a function   *)
(* stands at a later position than a Result record of the same function.   *)
(***************************************************************************)
C21_CausalToolOrder ==
    \A i \in 1..Len(chat_history) : \A j \in (i + 1)..Len(chat_history) :
       \A k \in 1..Len(chat_history[i].items) :
          chat_history[i].items[k].kind = "Result"
             => ~Holds(j, "Invocation", chat_history[i].items[k].function_name)

\* a Result record with two entries after it
C21_Witness ==
    /\ Len(chat_history) = 4
    /\ Holds(2, "Result", "schedule_delivery")
    /\ chat_history[3].role = "assistant"
    /\ chat_history[4].role = "tool"

(***************************************************************************)
(* C30  Every ResponseDone event the loop handles writes exactly one       *)
(* ChatHistory frame, also when no entry was appended since the previous   *)
(* flush: then the frame's data is the empty list and the watermark stays  *)
(* where it was.  Stated for realtime_events.py and agents/utils.py.       *)
(***************************************************************************)
C30_ResponseDoneAlwaysWrites ==
    impl \in {RE, AU} /\ LastType = RESPONSE_DONE =>
        /\ Len(LastDeltas) = 1
        /\ LastDeltas[1].data.items = ExportRange(last.idx, last.len)
        /\ last.idx = last.len =>
             /\ LastDeltas[1].data.items = <<>>
             /\ idx_first_msg_to_send = last.idx

\* two ResponseDone events in a row in agents/utils.py: the second has
\* nothing to publish and still writes its frame
C30_Witness ==
    /\ impl = AU
    /\ PrevType = RESPONSE_DONE /\ prev.flushed
    /\ LastType = RESPONSE_DONE /\ last.flushed
    /\ prev.len > prev.idx
    /\ last.idx = last.len
    /\ LastDeltas[1].data.items = <<>>

\* Some step of the dotted path misses: the value reached after n parts is
\* absent or None (n = 0 is the root).
PathMisses(obj, path) ==
    \E n \in 0..Len(path) :
       \/ ~CanRead(obj, SubSeq(path, 1, n))
       \/ Read(obj, SubSeq(path, 1, n)) = None

(***************************************************************************)
(* C26  The miss-safe accessor _get returns the default whenever the root  *)
(* or an attribute on the dotted path is absent or None, and the attribute *)
(* value at the end of the path otherwise; it has no raising outcome.      *)
(***************************************************************************)
C26_AccessorMissSafe ==
    fn_call.fn = "_get" =>
        fn_call.out = IF PathMisses(fn_call.obj, fn_call.path)
                      THEN fn_call.default
                      ELSE Read(fn_call.obj, fn_call.path)

\* an intermediate attribute is None and the default comes back
C26_Witness ==
    /\ fn_call.fn = "_get"
    /\ fn_call.obj = Obj([session |-> None])
    /\ fn_call.path = <<"session", "id">>
    /\ fn_call.default = Str("<unknown>")
    /\ fn_call.out = Str("<unknown>")

(***************************************************************************)
(* C27  export_chat_history(history, from_index) returns one record per    *)
(* entry at positions from_index and later, in order, with the entry's     *)
(* role, 'content' only for non-empty content and 'function_calls' only    *)
(* for an entry with function-call records, and never raises whatever the  *)
(* form of a function call's arguments.                                    *)
(***************************************************************************)
C27_ExportShapeNeverRaises ==
    fn_call.fn = "export_chat_history" =>
        LET h == fn_call.h
            from == fn_call.from_index
            out == fn_call.out
            n == IF from > Len(h) THEN 0 ELSE Len(h) - from
        IN  /\ ~fn_call.raised
            /\ Len(out) = n
            /\ \A i \in 1..n :
                 /\ out[i].role = h[from + i].role
                 /\ ("content" \in DOMAIN out[i]) = (h[from + i].content # "")
                 /\ ("content" \in DOMAIN out[i])
                       => out[i].content = h[from + i].content
                 /\ ("function_calls" \in DOMAIN out[i])
                       = (h[from + i].items # <<>>)
                 /\ ("function_calls" \in DOMAIN out[i])
                       => Len(out[i].function_calls) = Len(h[from + i].items)

\* the connection came without x-ms-call-connection-id and was closed
RejectedNoCallId == Pos("websocket.close(1008)") > 0

(***************************************************************************)
(* C25  A telephony connection without the call-identity header is served  *)
(* as a development session: the session is established and events are     *)
(* relayed; the connection is not rejected.                                *)
(***************************************************************************)
C25_NoHeaderServed == ~RejectedNoCallId

\* the latest plugin call was one of the two guarded delivery functions
GuardedCall ==
    /\ tool_call.n > 0
    /\ tool_call.fn \in {"schedule_delivery", "get_available_slots_for_delivery"}

(***************************************************************************)
(* C22  On a DeliveryPlugin instance on which no identity verification has *)
(* succeeded, schedule_delivery and get_available_slots_for_delivery fail  *)
(* with the precondition error, return no result and leave the             *)
(* verification state unchanged, whatever their argument.                  *)
(***************************************************************************)
C22_UnverifiedRejected ==
    GuardedCall /\ ~tool_call.before.verified =>
        /\ tool_call.outcome = "precondition error"
        /\ tool_call.result = None
        /\ tool_call.after = tool_call.before

C22_Witness ==
    /\ GuardedCall
    /\ ~tool_call.before.verified
    /\ tool_call.fn = "schedule_delivery"
    /\ tool_call.outcome = "precondition error"

(***************************************************************************)
(* C23  Once a verify call has returned its success message on a plugin    *)
(* instance, every later schedule_delivery and                             *)
(* get_available_slots_for_delivery call on that instance passes the       *)
(* verification precondition.                                              *)
(***************************************************************************)
C23_VerificationKept ==
    GuardedCall /\ tool_call.before.verified =>
        tool_call.outcome # "precondition error"

\* whether schedule_delivery would succeed in session o
CanSchedule(o) ==
    schedule_delivery(plugins[objects[o].plugin], "3").outcome = "returned"

\* the step is a plugin call made in session o
ToolStepIn(o) == tool_call'.n # tool_call.n /\ tool_call'.session = o

C28_FreshConversationId ==
    \A r \in 1..MaxRequests :
        requests[r].pc # "new" /\ ~requests[r].given =>
            ~requests[r].stored_before

\* the Conversation objects made so far
Conversations == {o \in 1..Len(objects) : objects[o].kind = "chat"}

\* no request for conversation id is between its lookup and its return
Quiet(id) ==
    \A r \in 1..MaxRequests :
        requests[r].pc \in {"setup", "responding"} =>
            requests[r].conversation_id # id

(***************************************************************************)
(* C29  For concurrent /chat requests naming the same conversation_id: at  *)
(* most one Conversation is ever created for the id, a stored Conversation *)
(* is never replaced (every Conversation made is the one stored under its  *)
(* id), and once the requests have returned the stored thread holds the    *)
(* turn of each of them.                                                   *)
(***************************************************************************)
C29_ConcurrentRequestsSafe ==
    /\ \A o1, o2 \in Conversations :
          objects[o1].id = objects[o2].id => o1 = o2
    /\ \A o \in Conversations : _conversations[objects[o].id] = o
    /\ \A r \in 1..MaxRequests :
          requests[r].pc = "done" /\ Quiet(requests[r].conversation_id) =>
             LET stored == objects[_conversations[requests[r].conversation_id]]
             IN  stored.thread # 0 /\ r \in threads[stored.thread]

\* the transcript entries present when the loop starts
AtLoopStart == add_system_message(<<>>, Instructions)

\* the records of the entries the handlers appended since loop start
AppendedRecords ==
    {ExportMsg(chat_history[k]) : k \in (Len(AtLoopStart) + 1)..Len(chat_history)}

(***************************************************************************)
(* C31  Transcript entries present before the event loop starts (the       *)
(* system prompt) are in no ChatHistory delta: the watermark starts at the *)
(* transcript length and never goes below it, and every record of every    *)
(* ChatHistory frame written is the record of an entry appended by a       *)
(* handler of the loop.                                                    *)
(***************************************************************************)
C31_PromptNeverPublished ==
    /\ loop # "unstarted" => idx_first_msg_to_send >= Len(AtLoopStart)
    /\ \A i \in 1..Len(wsLog) :
          IsChatHistory(wsLog[i]) =>
             \A j \in 1..Len(wsLog[i].data.items) :
                /\ wsLog[i].data.items[j] # ExportMsg(AtLoopStart[1])
                /\ wsLog[i].data.items[j] \in AppendedRecords

\* a delta with a record has been written and has arrived
C31_Witness ==
    \E i \in 1..Len(wsLog) :
        IsChatHistory(wsLog[i]) /\ wsLog[i].ok /\ wsLog[i].data.items # <<>>

\* the receive loop is over: it returned, raised or was cancelled
SessionEnded == loop \in {"returned", "raised", "cancelled"}

(***************************************************************************)
(* C32  Every transcript entry appended by a handler is published before   *)
(* the session ends: once the loop is over, the ChatHistory frames written *)
(* hold, in order, the record of every entry appended since loop start,    *)
(* also when no ResponseDone or Error event followed the append.           *)
(***************************************************************************)
C32_AppendedIsPublished ==
    SessionEnded =>
        ConcatData(SelectSeq(wsLog, IsChatHistory))
            = ExportRange(Len(AtLoopStart), Len(chat_history))

\* positions of the AgentError frames written
AgentErrorsAt(log) == {i \in 1..Len(log) : IsAgentError(log[i])}

(***************************************************************************)
(* C33  Within one session an AgentError frame is written at most once and *)
(* the loop is over when it has been written; from then on no frame is     *)
(* written, no model event is consumed, no audio is forwarded and the      *)
(* transcript and the watermark stay as they are.                          *)
(***************************************************************************)
C33_AgentErrorIsFinal ==
    [][/\ Cardinality(AgentErrorsAt(wsLog')) <= 1
       /\ AgentErrorsAt(wsLog') # {} =>
             /\ AgentErrorsAt(wsLog') = {Len(wsLog')}
             /\ loop' = "returned"
       /\ AgentErrorsAt(wsLog) # {} =>
             UNCHANGED <<chat_history, idx_first_msg_to_send, wsLog, nEvents,
                         audio_out>>]_vars

\* an AgentError frame was written after a handler had changed the
\* transcript and written frames
C33_Witness ==
    /\ AgentErrorsAt(wsLog) = {Len(wsLog)}
    /\ Len(wsLog) >= 3
    /\ Len(chat_history) > Len(AtLoopStart)
    /\ impl = RE

(***************************************************************************)
(* C34  Cancelling the receive-loop task is not treated as a failure of    *)
(* the loop: the step in which the task ends by cancellation writes no     *)
(* frame, AgentError or other, and changes neither the transcript nor the  *)
(* watermark.                                                              *)
(***************************************************************************)
C34_CancelIsQuiet ==
    [][loop' = "cancelled" =>
          UNCHANGED <<wsLog, chat_history, idx_first_msg_to_send>>]_vars

\* the loop of realtime_events.py was cancelled with entries appended
C34_Witness ==
    /\ loop = "cancelled"
    /\ impl = RE
    /\ Len(chat_history) > Len(AtLoopStart)
    /\ AgentErrorsAt(wsLog) = {}

\* a text frame on which an iteration of the inbound loop raises: it does
\* not decode, has no 'kind', or is AudioData without audioData.data
Malformed(stream_data) ==
    /\ stream_data # WebSocketDisconnect
    /\ ~CarriesAudio(stream_data)
    /\ ~OtherKind(stream_data)

\* the inbound loop has ended and agent_connect went on to cancel the
\* receive task, as it does when the socket closes
EndedAsOnClose == handler # "inbound" /\ Pos("receive_task.cancel()") > 0

(***************************************************************************)
(* C35  The inbound loop from_acs_to_realtime propagates no exception and  *)
(* ends on the first one: a receive that raises, a text that does not      *)
(* decode or lacks 'kind' or audio data, and a failed send to the model    *)
(* connection are each the last thing the loop handled, and after each of  *)
(* them agent_connect goes on exactly as after a socket close.             *)
(***************************************************************************)
C35_InboundEndsOnFirstException ==
    /\ \A i \in 1..Len(inbound_log) :
          inbound_log[i] = WebSocketDisconnect \/ Malformed(inbound_log[i]) =>
             i = Len(inbound_log) /\ EndedAsOnClose
    /\ \A j \in 1..Len(model_log) :
          ~model_log[j].event.ok => j = Len(model_log) /\ EndedAsOnClose
    /\ handler = "exiting" => EndedAsOnClose

\* the session ended on a malformed frame that followed a forwarded one
C35_Witness ==
    /\ Len(inbound_log) = 2
    /\ CarriesAudio(inbound_log[1])
    /\ Malformed(inbound_log[2])
    /\ Len(model_log) = 1
    /\ EndedAsOnClose

(***************************************************************************)
(* C36  The frames the event-receive task writes are written in the order  *)
(* of the model events that caused them: a step only adds frames after     *)
(* those of earlier events, and when an audio chunk is delivered right     *)
(* after a SpeechStarted event whose handler completed its write, the      *)
(* StopAudio frame of that event precedes the AudioData frame of the       *)
(* chunk.                                                                  *)
(***************************************************************************)
C36_FramesInEventOrder ==
    [][/\ Len(wsLog') >= Len(wsLog)
       /\ SubSeq(wsLog', 1, Len(wsLog)) = wsLog
       /\ (/\ PrevType' = INPUT_AUDIO_BUFFER_SPEECH_STARTED
           /\ ~prev'.exc
           /\ LastType' = RESPONSE_AUDIO_DELTA)
          => \E i, j \in 1..Len(wsLog') :
                /\ prev'.ws < i /\ i <= last'.ws /\ last'.ws < j
                /\ IsStopAudio(wsLog'[i])
                /\ IsAudioData(wsLog'[j])]_vars

\* a chunk was delivered after SpeechStarted and both frames arrived
C36_Witness ==
    /\ PrevType = INPUT_AUDIO_BUFFER_SPEECH_STARTED
    /\ LastType = RESPONSE_AUDIO_DELTA
    /\ impl = RE
    /\ Len(LastTwoWrites) = 2
    /\ IsStopAudio(LastTwoWrites[1]) /\ LastTwoWrites[1].ok
    /\ IsAudioData(LastTwoWrites[2]) /\ LastTwoWrites[2].ok

\* the latest event is a conversation.item.create without a function
\* result, or of a category no case of the loop names
NothingToHandle ==
    \/ /\ LastType = CONVERSATION_ITEM_CREATE
       /\ getattr(last.event, "function_result") = None
    \/ LastType = RESPONSE_CREATED

(***************************************************************************)
(* C37  A conversation.item.create event that carries no function result   *)
(* (the field is None or missing), and an event of a category the loop     *)
(* does not handle, leave the transcript and the watermark unchanged and   *)
(* cause no frame to be written.                                           *)
(***************************************************************************)
C37_UnhandledLeavesNoTrace ==
    NothingToHandle =>
        /\ Len(chat_history) = last.len
        /\ idx_first_msg_to_send = last.idx
        /\ LastWrites = <<>>

\* a result-less conversation.item.create came while an entry was pending
C37_Witness ==
    /\ LastType = CONVERSATION_ITEM_CREATE
    /\ getattr(last.event, "function_result") = None
    /\ "function_result" \in DOMAIN last.event.f
    /\ idx_first_msg_to_send < Len(chat_history)
    /\ wsLog # <<>>
    /\ loop = "running"

(***************************************************************************)
(* The evaluation harness: VoiceCallClient (voice_call_client.py) and the  *)
(* conversation loop _run_conversation (conversation_test_runner.py).      *)
(* runner.script tells whether the client is driven by _run_conversation   *)
(* or by a caller that invokes its methods in any order.                   *)
(***************************************************************************)
\* self.max_turns of the runner, and the number of messages the socket
\* yields to receive_messages in the model
MaxTurns == 2
MaxMessages == 2

\* What the socket yields: frames of the server, a text that is not JSON,
\* and an AudioData frame without audioData.
Messages ==
    {AudioDataFrame(b64encode(a), TRUE) : a \in AudioChunks}
    \cup {ChatHistoryFrame(<<[role |-> "assistant", content |-> "Hello"]>>, TRUE),
          StopAudioFrame(TRUE), Frame("AudioData", [t |-> "stop"], TRUE),
          NotJson}

\* One iteration of receive_messages on a message; exc: the iteration
\* raised, which ends the receive task.
receive_message(h, message) ==
    IF message = NotJson THEN [h |-> h, exc |-> TRUE]
    ELSE IF message.kind = "AudioData"
    THEN IF message.data.t # "audio" THEN [h |-> h, exc |-> TRUE]
         ELSE LET audio_data == b64decode(message.data.data)
              IN  [h |-> [h EXCEPT
                            !.audio_buffer = @ \o audio_data,
                            !.current_assistant_audio = @ \o audio_data,
                            !.is_assistant_speaking = TRUE],
                   exc |-> FALSE]
    ELSE IF message.kind = "ChatHistory"
    THEN [h |-> [h EXCEPT !.chat_history = @ \o message.data.items],
          exc |-> FALSE]
    ELSE [h |-> h, exc |-> FALSE]

\* if self.current_assistant_audio: append the assistant segment and reset
\* the buffer (the block wait_for_assistant_turn_end and disconnect share)
save_assistant_turn(h) ==
    IF h.current_assistant_audio # <<>>
    THEN [h EXCEPT
            !.conversation_segments =
                Append(@, [role |-> "assistant",
                           audio |-> h.current_assistant_audio]),
            !.current_assistant_audio = <<>>,
            !.is_assistant_speaking = FALSE]
    ELSE h

\* The iteration of wait_for_assistant_turn_end that ends the wait, on
\* silence or on the overall timeout.
wait_for_assistant_turn_end(h, reason) ==
    IF reason = "silence" THEN save_assistant_turn(h)
    ELSE [save_assistant_turn(h) EXCEPT !.is_assistant_speaking = FALSE]

\* add_customer_audio
add_customer_audio(h, audio_data) ==
    [h EXCEPT !.conversation_segments =
                 Append(@, [role |-> "customer", audio |-> audio_data])]

Step(name) == [runner EXCEPT !.log = Append(@, name)]

InitEval ==
    /\ SessionIdle
    /\ fn_call = NoCall
    /\ ChatIdle
    /\ harness = VoiceCallClient
    /\ \E script \in BOOLEAN :
         runner = [pc |-> "start", script |-> script, conversation_turn |-> 0,
                   goodbye |-> FALSE, receive_task |-> "none", messages |-> 0,
                   exc |-> FALSE, log |-> <<>>]

\* harness.connect(...) and asyncio.create_task(harness.receive_messages());
\* when connect raises, _run_conversation goes to its finally block.
HarnessConnect ==
    /\ runner.pc = "start"
    /\ \E ok \in BOOLEAN :
         IF ok
         THEN /\ harness' = [harness EXCEPT !.websocket = "open"]
              /\ runner' = [runner EXCEPT
                              !.pc = IF runner.script THEN "turn" ELSE "free",
                              !.receive_task = "running"]
         ELSE /\ runner.script
              /\ harness' = harness
              /\ runner' = [runner EXCEPT !.pc = "finally", !.exc = TRUE]
    /\ UNCHANGED <<loopvars, connvars, fn_call, chatvars>>

\* The receive task handles the next message of the socket.
ReceiveMessage ==
    /\ runner.pc # "idle"
    /\ runner.receive_task = "running"
    /\ harness.websocket \in {"open", "closing"}
    /\ runner.messages < MaxMessages
    /\ \E message \in Messages :
         LET r == receive_message(harness, message)
         IN  /\ harness' = r.h
             /\ runner' = [runner EXCEPT
                             !.messages = @ + 1,
                             !.receive_task = IF r.exc THEN "failed" ELSE @]
    /\ UNCHANGED <<loopvars, connvars, fn_call, chatvars>>

\* "async for message in self.websocket" ends: the server closed the
\* connection (the task returns), or the connection broke (it raises).
ReceiveStreamEnds ==
    /\ runner.pc # "idle"
    /\ runner.receive_task = "running"
    /\ \E ok \in BOOLEAN :
         runner' = [runner EXCEPT
                      !.receive_task = IF ok THEN "done" ELSE "failed"]
    /\ UNCHANGED <<loopvars, connvars, fn_call, chatvars, harness>>

\* wait_for_assistant_turn_end returns.
AssistantTurnEnd ==
    /\ runner.pc \in {"turn", "free"}
    /\ \E reason \in {"silence", "timeout"} :
         /\ reason = "silence" => harness.audio_buffer # <<>>
         /\ harness' = wait_for_assistant_turn_end(harness, reason)
    /\ runner' = [runner EXCEPT !.pc = IF runner.script THEN "respond" ELSE @]
    /\ UNCHANGED <<loopvars, connvars, fn_call, chatvars>>

\* The rest of a turn of the while loop: transcribe the assistant, ask the
\* proxy human, send the answer as audio (any of which may raise), record
\* it, count the turn and test the exit terms and max_turns.
CustomerTurn ==
    /\ runner.pc = "respond"
    /\ \E ok \in BOOLEAN, goodbye \in BOOLEAN :
         IF ok
         THEN /\ harness' = add_customer_audio(harness, <<1>>)
              /\ runner' = [runner EXCEPT
                              !.conversation_turn = @ + 1,
                              !.goodbye = goodbye,
                              !.pc = IF goodbye
                                        \/ ~(runner.conversation_turn + 1
                                               < MaxTurns)
                                     THEN "wrapup" ELSE "turn"]
         ELSE /\ harness' = harness
              /\ runner' = [runner EXCEPT !.pc = "finally", !.exc = TRUE]
    /\ UNCHANGED <<loopvars, connvars, fn_call, chatvars>>

\* After the loop: sleep, extract the function calls, save audio and
\* transcript; then, also when one of them raised, the finally block.
WrapUp ==
    /\ runner.pc = "wrapup"
    /\ \E ok \in BOOLEAN :
         runner' = [runner EXCEPT !.pc = "finally", !.exc = ~ok]
    /\ UNCHANGED <<loopvars, connvars, fn_call, chatvars, harness>>

\* finally: if receive_task: receive_task.cancel(); await receive_task,
\* passing CancelledError only.  A task that had already raised raises
\* its exception again at the await, which leaves the finally block.
CancelReceive ==
    /\ runner.pc = "finally"
    /\ runner' =
         IF runner.receive_task = "none"
         THEN [runner EXCEPT !.pc = "disconnect"]
         ELSE [runner EXCEPT
                 !.log = @ \o <<"receive_task.cancel()", "await receive_task">>,
                 !.receive_task = IF @ = "running" THEN "cancelled" ELSE @,
                 !.pc = IF runner.receive_task = "failed"
                        THEN "raised" ELSE "disconnect"]
    /\ UNCHANGED <<loopvars, connvars, fn_call, chatvars, harness>>

\* disconnect() up to its await: the pending assistant audio is saved and
\* websocket.close() begins (there is nothing to close when not connected).
DisconnectFlush ==
    /\ runner.pc \in {"disconnect", "free"}
    /\ harness' = [save_assistant_turn(harness) EXCEPT
                     !.websocket = IF @ = "none" THEN "none" ELSE "closing"]
    /\ runner' = [Step("disconnect()") EXCEPT
                    !.pc = IF harness.websocket # "none" THEN "closing"
                           ELSE IF runner.exc THEN "raised" ELSE "returned"]
    /\ UNCHANGED <<loopvars, connvars, fn_call, chatvars>>

\* websocket.close() returns or raises; finally: self.websocket = None.
\* The caller raises when the close did or when it was already leaving
\* with an exception.
DisconnectClose ==
    /\ runner.pc = "closing"
    /\ harness' = [harness EXCEPT !.websocket = "none"]
    /\ \E ok \in BOOLEAN :
         runner' = [Step("disconnected") EXCEPT
                      !.pc = IF ok /\ ~runner.exc THEN "returned"
                             ELSE "raised"]
    /\ UNCHANGED <<loopvars, connvars, fn_call, chatvars>>

NextEval ==
    \/ HarnessConnect
    \/ ReceiveMessage
    \/ ReceiveStreamEnds
    \/ AssistantTurnEnd
    \/ CustomerTurn
    \/ WrapUp
    \/ CancelReceive
    \/ DisconnectFlush
    \/ DisconnectClose

SpecEval == InitEval /\ [][NextEval]_vars

\* the audio of the assistant segments, joined in timeline order
RECURSIVE AssistantAudio(_)
AssistantAudio(segments) ==
    IF segments = <<>> THEN <<>>
    ELSE (IF Head(segments).role = "assistant" THEN Head(segments).audio
          ELSE <<>>) \o AssistantAudio(Tail(segments))

\* disconnect has completed (returned, or raised from websocket.close)
Disconnected ==
    \E i \in 1..Len(runner.log) : runner.log[i] = "disconnected"

(***************************************************************************)
(* C38  Once VoiceCallClient.disconnect has completed, however             *)
(* receive_messages, wait_for_assistant_turn_end and disconnect were       *)
(* interleaved, the assistant segments of conversation_segments hold every *)
(* byte of assistant audio received, once and in receipt order, and        *)
(* current_assistant_audio is empty.                                       *)
(***************************************************************************)
C38_AllAudioInSegments ==
    runner.pc # "idle" /\ Disconnected =>
        /\ AssistantAudio(harness.conversation_segments) = harness.audio_buffer
        /\ harness.current_assistant_audio = <<>>

\* position of the first occurrence of a step in the runner's log (0: none)
RunPos(step) ==
    IF \E i \in 1..Len(runner.log) : runner.log[i] = step
    THEN CHOOSE i \in 1..Len(runner.log) :
            /\ runner.log[i] = step
            /\ \A j \in 1..(i - 1) : runner.log[j] # step
    ELSE 0

\* _run_conversation has returned or raised
RunOver == runner.pc \in {"returned", "raised"}

(***************************************************************************)
(* C39  _run_conversation performs at most max_turns customer turns and    *)
(* none after a customer response with an exit term; on every exit path    *)
(* the receive task, when one was created, is cancelled and awaited before *)
(* the harness is disconnected, and disconnect is called exactly once.     *)
(***************************************************************************)
C39_BoundedTurnsCleanExit ==
    runner.pc # "idle" /\ runner.script =>
        /\ runner.conversation_turn <= MaxTurns
        /\ runner.goodbye => runner.pc \notin {"turn", "respond"}
        /\ RunOver =>
              /\ Cardinality({i \in 1..Len(runner.log) :
                                 runner.log[i] = "disconnect()"}) = 1
              /\ runner.receive_task # "none" =>
                    /\ runner.receive_task # "running"
                    /\ 0 < RunPos("receive_task.cancel()")
                    /\ RunPos("receive_task.cancel()") < RunPos("await receive_task")
                    /\ RunPos("await receive_task") < RunPos("disconnect()")

(***************************************************************************)
(* C40: for every call of FunctionCallEvaluator that returns, tp + fp =     *)
(* total, tp + fn = expected, 0 <= tp <= expected, fn >= 0, and precision   *)
(* and recall lie between 0 and 1; and the call raises ValueError whenever  *)
(* some call matches both the expected and the unexpected list.             *)
(***************************************************************************)
InUnit(q) == 0 <= q.num /\ q.num <= q.den

\* the calls of a list, as FunctionCall objects
Calls(dicts) == {from_dict(dicts[i]) : i \in 1..Len(dicts)}

C40_CountsAreConsistent ==
    fn_call.fn = "FunctionCallEvaluator" =>
        LET out == fn_call.out
        IN  /\ ~out.raised =>
                 /\ out.tp + out.fp = out.total
                 /\ out.tp + out.fn = out.expected
                 /\ 0 <= out.tp /\ out.tp <= out.expected
                 /\ out.fn >= 0
                 /\ InUnit(out.precision)
                 /\ InUnit(out.recall)
            /\ (\E c \in Calls(fn_call.expected_function_calls)
                         \cup Calls(fn_call.unexpected_function_calls) :
                    /\ \E e \in Calls(fn_call.expected_function_calls) : __eq__(c, e)
                    /\ \E u \in Calls(fn_call.unexpected_function_calls) : __eq__(c, u))
                 => out.raised

====
